---- MODULE Spec2Model ----
(***************************************************************************)
(* Model of obsidian-auto-card-link: the placeholder/replace orchestrator  *)
(* (CodeBlockGenerator), the metadata extractor with its asset URL         *)
(* resolver (LinkMetadataParser), the URL classifier (CheckIf) and the     *)
(* paste handlers of the plugin (ObsidianAutoCardLink).                    *)
(*                                                                         *)
(* Strings are sequences of one-character strings.  The document is a      *)
(* sequence of cells [c, o]: c is the character, o the conversion task     *)
(* that inserted it as part of its placeholder (0 for any other text).     *)
(* The o tag is history only: the code never reads it.                     *)
(***************************************************************************)
EXTENDS Integers, Sequences, FiniteSets, TLC

(***************************************************************************)
(* Bounds of the model.                                                    *)
(***************************************************************************)
\* what the user does in one behaviour: conversions (convertUrlToCodeBlock
\* invocations) and plain edits of the document (plain pastes, backspaces)
MaxOps == 2

(***************************************************************************)
(* Characters and strings.                                                 *)
(***************************************************************************)
Lowercase ==
  {"a","b","c","d","e","f","g","h","i","j","k","l","m",
   "n","o","p","q","r","s","t","u","v","w","x","y","z"}
Uppercase ==
  {"A","B","C","D","E","F","G","H","I","J","K","L","M",
   "N","O","P","Q","R","S","T","U","V","W","X","Y","Z"}
Digits == {"0","1","2","3","4","5","6","7","8","9"}

\* the i flag of the regular expressions: compare letters case-insensitively
ToLower(c) ==
  CASE c = "A" -> "a" [] c = "B" -> "b" [] c = "C" -> "c" [] c = "D" -> "d"
    [] c = "E" -> "e" [] c = "F" -> "f" [] c = "G" -> "g" [] c = "H" -> "h"
    [] c = "I" -> "i" [] c = "J" -> "j" [] c = "K" -> "k" [] c = "L" -> "l"
    [] c = "M" -> "m" [] c = "N" -> "n" [] c = "O" -> "o" [] c = "P" -> "p"
    [] c = "Q" -> "q" [] c = "R" -> "r" [] c = "S" -> "s" [] c = "T" -> "t"
    [] c = "U" -> "u" [] c = "V" -> "v" [] c = "W" -> "w" [] c = "X" -> "x"
    [] c = "Y" -> "y" [] c = "Z" -> "z" [] OTHER -> c

\* [a-zA-Z0-9]
IsAlnum(c) == c \in Lowercase \cup Uppercase \cup Digits
\* \s
IsSpace(c) == c \in {" ", "\t", "\n", "\r", "\f"}

\* s has p (a lower-case literal) at index i (1-based), ignoring case
HasAtCI(s, i, p) ==
  /\ i >= 1
  /\ i + Len(p) - 1 <= Len(s)
  /\ \A k \in 1..Len(p) : ToLower(s[i + k - 1]) = p[k]

\* String.prototype.startsWith
StartsWith(s, p) ==
  /\ Len(p) <= Len(s)
  /\ \A k \in 1..Len(p) : s[k] = p[k]

\* s from the 0-based offset a up to, not including, the 0-based offset b
Slice(s, a, b) == SubSeq(s, a + 1, b)

(***************************************************************************)
(* URL classifier: src/checkif.ts over the expressions of src/regex.ts.    *)
(***************************************************************************)
\* [a-zA-Z0-9][a-zA-Z0-9-]+[a-zA-Z0-9] from index i to index j
HyphenLabel(s, i, j) ==
  /\ j >= i + 2
  /\ IsAlnum(s[i])
  /\ IsAlnum(s[j])
  /\ \A k \in (i + 1)..(j - 1) : IsAlnum(s[k]) \/ s[k] = "-"

\* [a-zA-Z0-9]+ from index i to index j
PlainLabel(s, i, j) ==
  /\ j >= i
  /\ \A k \in i..j : IsAlnum(s[k])

\* <label>\.[^\s]{2,}$ from index i: the tail of each alternative of urlRegex
MatchHostTail(s, i) ==
  \E j \in i..Len(s) :
    /\ HyphenLabel(s, i, j) \/ PlainLabel(s, i, j)
    /\ j + 1 <= Len(s)
    /\ s[j + 1] = "."
    /\ Len(s) - (j + 1) >= 2
    /\ \A k \in (j + 2)..Len(s) : ~IsSpace(s[k])

\* (?:www\.|(?!www))<label>\.[^\s]{2,}$ from index i
MatchAfterScheme(s, i) ==
  \/ HasAtCI(s, i, <<"w", "w", "w", ".">>) /\ MatchHostTail(s, i + 4)
  \/ ~HasAtCI(s, i, <<"w", "w", "w">>) /\ MatchHostTail(s, i)

SchemeHttp == <<"h", "t", "t", "p", ":", "/", "/">>
SchemeHttps == <<"h", "t", "t", "p", "s", ":", "/", "/">>

\* CheckIf.isUrl: urlRegex.test(text)
isUrl(text) ==
  \/ HasAtCI(text, 1, SchemeHttp) /\ MatchAfterScheme(text, Len(SchemeHttp) + 1)
  \/ HasAtCI(text, 1, SchemeHttps) /\ MatchAfterScheme(text, Len(SchemeHttps) + 1)
  \/ HasAtCI(text, 1, <<"w", "w", "w", ".">>) /\ MatchHostTail(text, 5)

\* the extensions of imageRegex
ImageExtensions ==
  { <<"g","i","f">>, <<"j","p","g">>, <<"j","p","e","g">>, <<"t","i","f">>,
    <<"t","i","f","f">>, <<"p","n","g">>, <<"w","e","b","p">>, <<"b","m","p">>,
    <<"t","g","a">>, <<"p","s","d">>, <<"a","i">> }

\* CheckIf.isImage: imageRegex.test(text)
isImage(text) ==
  \E e \in ImageExtensions :
    HasAtCI(text, Len(text) - Len(e), <<".">> \o e)

(***************************************************************************)
(* The editable document: the Editor the plugin is handed.  getValue,      *)
(* getSelection, replaceSelection and replaceRange as the code calls them. *)
(***************************************************************************)
\* the characters of a run of document cells
TextOf(d) == [i \in 1..Len(d) |-> d[i].c]
\* text as document cells inserted by o (0: not a placeholder)
Cells(s, o) == [i \in 1..Len(s) |-> [c |-> s[i], o |-> o]]

\* editor.getSelection(): the text between the selection's ends
getSelection(d, s) == TextOf(Slice(d, s.from, s.to))

\* where a document offset lands after [a, b) was replaced by n characters:
\* offsets before the range stay, offsets from its end on shift, and an offset
\* strictly inside goes to the end of the inserted text
MapOffset(p, a, b, n) ==
  IF p <= a THEN p
  ELSE IF p >= b THEN p - (b - a) + n
  ELSE a + n

\* editor.replaceSelection(text) by task o: the selection is replaced and the
\* cursor is left, with nothing selected, after the inserted text
replaceSelection(d, s, text, o) ==
  [doc |-> Slice(d, 0, s.from) \o Cells(text, o) \o Slice(d, s.to, Len(d)),
   sel |-> [from |-> s.from + Len(text), to |-> s.from + Len(text)]]

\* the 0-based offset of the first character c of s at or after offset i, or -1
RECURSIVE IndexOfCharFrom(_, _, _)
IndexOfCharFrom(s, c, i) ==
  IF i >= Len(s) THEN -1
  ELSE IF s[i + 1] = c THEN i
  ELSE IndexOfCharFrom(s, c, i + 1)

\* the editor's own line/column to offset conversion (Editor.posToOffset): the
\* start of line pos.line, found by walking the line breaks, plus pos.ch,
\* clipped to the document
RECURSIVE LineStartOffset(_, _, _)
LineStartOffset(text, line, from) ==
  IF line = 0 THEN from
  ELSE LET r == IndexOfCharFrom(text, "\n", from)
       IN  IF r < 0 THEN Len(text) ELSE LineStartOffset(text, line - 1, r + 1)

posToOffset(text, pos) ==
  LET o == LineStartOffset(text, pos.line, 0) + pos.ch
  IN  IF o > Len(text) THEN Len(text) ELSE o

\* editor.replaceRange(text, from, to): the range between the two positions is
\* replaced; the selection is carried through the change
replaceRange(d, s, text, fromPos, toPos) ==
  LET a == posToOffset(TextOf(d), fromPos)
      b == posToOffset(TextOf(d), toPos)
  IN  [doc |-> Slice(d, 0, a) \o Cells(text, 0) \o Slice(d, b, Len(d)),
       sel |-> [from |-> MapOffset(s.from, a, b, Len(text)),
                to |-> MapOffset(s.to, a, b, Len(text))]]

(***************************************************************************)
(* EditorExtensions.getEditorPositionFromIndex (src/editor_enhancements.ts)*)
(***************************************************************************)
\* the for loop of line 115: r runs over the line breaks of substr, l counts
\* them and offset is left at the last one
RECURSIVE ScanLineBreaks(_, _, _, _)
ScanLineBreaks(substr, r, l, offset) ==
  LET r2 == IndexOfCharFrom(substr, "\n", r + 1)
  IN  IF r2 = -1 THEN [l |-> l, offset |-> offset]
      ELSE ScanLineBreaks(substr, r2, l + 1, r2)

\* String.prototype.substr(start, length)
Substr(s, start, length) ==
  LET a == IF start > Len(s) THEN Len(s) ELSE start
      n == IF length < 0 THEN 0 ELSE length
      b == IF a + n > Len(s) THEN Len(s) ELSE a + n
  IN  Slice(s, a, b)

\* a plausible slip: the column counted from the line break itself
PositionFromIndexNoSkip(content, index) ==
  LET scan == ScanLineBreaks(Substr(content, 0, index), -1, 0, -1)
      offset == IF scan.offset < 0 THEN 0 ELSE scan.offset
  IN  [line |-> scan.l, ch |-> Len(Substr(content, offset, index - offset))]

getEditorPositionFromIndex(content, index) ==
  LET scan == ScanLineBreaks(Substr(content, 0, index), -1, 0, -1)
      offset == scan.offset + 1
  IN  [line |-> scan.l, ch |-> Len(Substr(content, offset, index - offset))]

(***************************************************************************)
(* CodeBlockGenerator (src/unnamed/part_000): placeholder and block text.  *)
(***************************************************************************)
\* p occurs in s at the 0-based offset i
OccursAt(s, p, i) ==
  /\ i >= 0
  /\ i + Len(p) <= Len(s)
  /\ \A k \in 1..Len(p) : s[i + k] = p[k]

\* a plausible slip: the last occurrence instead of the first
RECURSIVE LastIndexOfFrom(_, _, _)
LastIndexOfFrom(s, p, i) ==
  IF i < 0 THEN -1
  ELSE IF OccursAt(s, p, i) THEN i
  ELSE LastIndexOfFrom(s, p, i - 1)

LastIndexOf(s, p) == LastIndexOfFrom(s, p, Len(s) - Len(p))

\* String.prototype.indexOf: the first offset at which p occurs in s, or -1
IndexOfFrom(s, p, i) ==
  LET at == {j \in i..(Len(s) - Len(p)) : OccursAt(s, p, j)}
  IN  IF at = {} THEN -1 ELSE CHOOSE j \in at : \A k \in at : j <= k

\* a plausible slip: a text that does not occur is reported at offset 0
IndexOfFoundAlways(s, p) ==
  LET i == IndexOfFrom(s, p, 0) IN IF i < 0 THEN 0 ELSE i

IndexOf(s, p) == IndexOfFrom(s, p, 0)

FetchingPrefix ==
  <<"[", "F", "e", "t", "c", "h", "i", "n", "g", " ", "D", "a", "t", "a", "#">>

\* `[Fetching Data#${pasteId}](${url})`
fetchingText(pasteId, url) ==
  FetchingPrefix \o pasteId \o <<"]", "(">> \o url \o <<")">>

\* an optional field that is not there (undefined)
Absent == <<"undefined">>
\* JavaScript truthiness of an optional string
Truthy(v) == v # Absent /\ v # <<>>

\* Array.prototype.join("\n")
RECURSIVE JoinLines(_)
JoinLines(lines) ==
  IF Len(lines) = 0 THEN <<>>
  ELSE IF Len(lines) = 1 THEN lines[1]
  ELSE lines[1] \o <<"\n">> \o JoinLines(Tail(lines))

\* the grave accent, which a string of this language cannot hold as itself
Backtick == "U+0060"
\* the fence of a code block
Fence == <<Backtick, Backtick, Backtick>>

\* a plausible slip: no host line is written
genCodeBlockNoHost(linkMetadata) ==
  LET head == << <<"\n">> \o Fence \o <<"c", "a", "r", "d", "l", "i", "n", "k">>,
                 <<"u", "r", "l", ":", " ">> \o linkMetadata.url,
                 <<"t", "i", "t", "l", "e", ":", " ", "\"">>
                   \o linkMetadata.title \o <<"\"">> >>
      description ==
        IF Truthy(linkMetadata.description)
        THEN << <<"d", "e", "s", "c", "r", "i", "p", "t", "i", "o", "n", ":", " ", "\"">>
                  \o linkMetadata.description \o <<"\"">> >>
        ELSE <<>>
      favicon ==
        IF Truthy(linkMetadata.favicon)
        THEN << <<"f", "a", "v", "i", "c", "o", "n", ":", " ">> \o linkMetadata.favicon >>
        ELSE <<>>
      image ==
        IF Truthy(linkMetadata.image)
        THEN << <<"i", "m", "a", "g", "e", ":", " ">> \o linkMetadata.image >>
        ELSE <<>>
      foot == << Fence \o <<"\n">> >>
  IN  JoinLines(head \o description \o favicon \o image \o foot)

\* a plausible slip: the host line is written before the description line
genCodeBlockHostFirst(linkMetadata) ==
  LET head == << <<"\n">> \o Fence \o <<"c", "a", "r", "d", "l", "i", "n", "k">>,
                 <<"u", "r", "l", ":", " ">> \o linkMetadata.url,
                 <<"t", "i", "t", "l", "e", ":", " ", "\"">>
                   \o linkMetadata.title \o <<"\"">> >>
      description ==
        IF Truthy(linkMetadata.description)
        THEN << <<"d", "e", "s", "c", "r", "i", "p", "t", "i", "o", "n", ":", " ", "\"">>
                  \o linkMetadata.description \o <<"\"">> >>
        ELSE <<>>
      host ==
        IF Truthy(linkMetadata.host)
        THEN << <<"h", "o", "s", "t", ":", " ">> \o linkMetadata.host >>
        ELSE <<>>
      favicon ==
        IF Truthy(linkMetadata.favicon)
        THEN << <<"f", "a", "v", "i", "c", "o", "n", ":", " ">> \o linkMetadata.favicon >>
        ELSE <<>>
      image ==
        IF Truthy(linkMetadata.image)
        THEN << <<"i", "m", "a", "g", "e", ":", " ">> \o linkMetadata.image >>
        ELSE <<>>
      foot == << Fence \o <<"\n">> >>
  IN  JoinLines(head \o host \o description \o favicon \o image \o foot)

\* CodeBlockGenerator.genCodeBlock
genCodeBlock(linkMetadata) ==
  LET head == << <<"\n">> \o Fence \o <<"c", "a", "r", "d", "l", "i", "n", "k">>,
                 <<"u", "r", "l", ":", " ">> \o linkMetadata.url,
                 <<"t", "i", "t", "l", "e", ":", " ", "\"">>
                   \o linkMetadata.title \o <<"\"">> >>
      description ==
        IF Truthy(linkMetadata.description)
        THEN << <<"d", "e", "s", "c", "r", "i", "p", "t", "i", "o", "n", ":", " ", "\"">>
                  \o linkMetadata.description \o <<"\"">> >>
        ELSE <<>>
      host ==
        IF Truthy(linkMetadata.host)
        THEN << <<"h", "o", "s", "t", ":", " ">> \o linkMetadata.host >>
        ELSE <<>>
      favicon ==
        IF Truthy(linkMetadata.favicon)
        THEN << <<"f", "a", "v", "i", "c", "o", "n", ":", " ">> \o linkMetadata.favicon >>
        ELSE <<>>
      image ==
        IF Truthy(linkMetadata.image)
        THEN << <<"i", "m", "a", "g", "e", ":", " ">> \o linkMetadata.image >>
        ELSE <<>>
      foot == << Fence \o <<"\n">> >>
  IN  JoinLines(head \o description \o host \o favicon \o image \o foot)

(***************************************************************************)
(* LinkMetadataParser (src/main.ts, lines 460-623).  The markup is held as *)
(* what the selector queries of the parser find in it.                     *)
(***************************************************************************)
\* String.prototype.replace(/\r\n|\n|\r/g, "")
RECURSIVE StripNewlines(_)
StripNewlines(s) ==
  IF s = <<>> THEN <<>>
  ELSE IF Head(s) \in {"\n", "\r"} THEN StripNewlines(Tail(s))
  ELSE <<Head(s)>> \o StripNewlines(Tail(s))

\* String.prototype.replace(/\\/g, "\\\\")
RECURSIVE EscapeBackslashes(_)
EscapeBackslashes(s) ==
  IF s = <<>> THEN <<>>
  ELSE IF Head(s) = "\\" THEN <<"\\", "\\">> \o EscapeBackslashes(Tail(s))
  ELSE <<Head(s)>> \o EscapeBackslashes(Tail(s))

\* String.prototype.replace(/"/g, '\\"')
RECURSIVE EscapeQuotes(_)
EscapeQuotes(s) ==
  IF s = <<>> THEN <<>>
  ELSE IF Head(s) = "\"" THEN <<"\\", "\"">> \o EscapeQuotes(Tail(s))
  ELSE <<Head(s)>> \o EscapeQuotes(Tail(s))

\* String.prototype.trim
RECURSIVE TrimStart(_)
TrimStart(s) ==
  IF s # <<>> /\ IsSpace(Head(s)) THEN TrimStart(Tail(s)) ELSE s

RECURSIVE TrimEnd(_)
TrimEnd(s) ==
  IF s # <<>> /\ IsSpace(s[Len(s)]) THEN TrimEnd(SubSeq(s, 1, Len(s) - 1)) ELSE s

Trim(s) == TrimEnd(TrimStart(s))

\* a plausible slip: quotes are escaped before backslashes
NormalizeQuotesFirst(v) ==
  IF v = Absent THEN Absent
  ELSE Trim(EscapeBackslashes(EscapeQuotes(StripNewlines(v))))

\* the chain of lines 495-498 and 502-505; ?. leaves undefined as it is
Normalize(v) ==
  IF v = Absent THEN Absent
  ELSE Trim(EscapeQuotes(EscapeBackslashes(StripNewlines(v))))

\* LinkMetadataParser.getTitle
getTitle(htmlDoc) ==
  IF Truthy(htmlDoc.ogTitle) THEN htmlDoc.ogTitle
  ELSE IF Truthy(htmlDoc.title) THEN htmlDoc.title
  ELSE Absent

\* LinkMetadataParser.getDescription
getDescription(htmlDoc) ==
  IF Truthy(htmlDoc.ogDescription) THEN htmlDoc.ogDescription
  ELSE IF Truthy(htmlDoc.metaDescription) THEN htmlDoc.metaDescription
  ELSE Absent

\* the href or content the asset's selector finds (getFavicon, getImage)
AssetRef(htmlDoc, asset) ==
  IF asset = "favicon" THEN htmlDoc.icon ELSE htmlDoc.ogImage

\* the 1-based index of the first character of s at or after i that is in set,
\* or Len(s) + 1
RECURSIVE FirstIn(_, _, _)
FirstIn(s, set, i) ==
  IF i > Len(s) THEN Len(s) + 1
  ELSE IF s[i] \in set THEN i
  ELSE FirstIn(s, set, i + 1)

\* the 1-based index of the last character c of s, or 0
RECURSIVE LastOf(_, _, _)
LastOf(s, c, i) ==
  IF i < 1 THEN 0
  ELSE IF s[i] = c THEN i
  ELSE LastOf(s, c, i - 1)

\* code points a host may not hold
ForbiddenHost == {" ", "\t", "\n", "\r", "<", ">", "[", "]", "^", "|", "%", "\\"}

\* [a-zA-Z][a-zA-Z0-9+.-]*: a scheme ends at index k
IsSchemeUpTo(s, k) ==
  /\ k >= 2
  /\ k <= Len(s)
  /\ s[k] = ":"
  /\ ToLower(s[1]) \in Lowercase
  /\ \A i \in 2..(k - 1) : IsAlnum(s[i]) \/ s[i] \in {"+", ".", "-"}

\* new URL(url): whether it parses (it throws a TypeError otherwise) and the
\* hostname of the result.  An http(s) URL has the host between the scheme and
\* the first of / ? #, without user information and port, in lower case; a
\* text with another scheme and no // has no host; a text with no scheme does
\* not parse.
ParseUrl(url) ==
  LET n == IF HasAtCI(url, 1, SchemeHttp) THEN Len(SchemeHttp)
           ELSE IF HasAtCI(url, 1, SchemeHttps) THEN Len(SchemeHttps)
           ELSE 0
      stop == FirstIn(url, {"/", "?", "#"}, n + 1)
      authority == SubSeq(url, n + 1, stop - 1)
      at == LastOf(authority, "@", Len(authority))
      hostport == SubSeq(authority, at + 1, Len(authority))
      colon == FirstIn(hostport, {":"}, 1)
      host == SubSeq(hostport, 1, colon - 1)
  IN  IF n > 0
      THEN [ok |-> host # <<>> /\ \A i \in 1..Len(host) : host[i] \notin ForbiddenHost,
            hostname |-> [i \in 1..Len(host) |-> ToLower(host[i])]]
      ELSE [ok |-> \E k \in 2..Len(url) : IsSchemeUpTo(url, k),
            hostname |-> <<>>]

\* how fixImageUrl treats a reference (lines 584 and 593)
RefForm(url, hostname) ==
  IF StartsWith(url, <<"/", "/">>) THEN "protocol"
  ELSE IF StartsWith(url, <<"/">>) /\ hostname # <<>> THEN "root"
  ELSE "asis"

\* testUrlHttps and testUrlHttp of fixImageUrl (lines 586-587, 595-596)
TestUrl(url, hostname, scheme) ==
  LET prefix == IF scheme = "https" THEN <<"h", "t", "t", "p", "s", ":">>
                ELSE <<"h", "t", "t", "p", ":">>
  IN  IF StartsWith(url, <<"/", "/">>) THEN prefix \o url
      ELSE prefix \o <<"/", "/">> \o hostname \o url

\* a plausible slip: the protocol-relative fallback is the https candidate
fixImageUrlHttpsFallback(url, hostname, results) ==
  LET form == RefForm(url, hostname)
  IN  IF form = "asis" THEN [return |-> url]
      ELSE IF results = <<>> THEN [probe |-> "https"]
      ELSE IF form = "protocol" /\ results[1] THEN [return |-> TestUrl(url, hostname, "https")]
      ELSE IF Len(results) = 1 THEN [probe |-> "http"]
      ELSE IF form = "root" /\ results[1] THEN [return |-> TestUrl(url, hostname, "https")]
      ELSE IF results[2] THEN [return |-> TestUrl(url, hostname, "http")]
      ELSE IF form = "protocol" THEN [return |-> TestUrl(url, hostname, "https")]
      ELSE [return |-> url]

\* a plausible slip: a root-relative reference keeps the https candidate even
\* when only the http candidate loaded
fixImageUrlHttpIgnored(url, hostname, results) ==
  LET form == RefForm(url, hostname)
  IN  IF form = "asis" THEN [return |-> url]
      ELSE IF results = <<>> THEN [probe |-> "https"]
      ELSE IF form = "protocol" /\ results[1] THEN [return |-> TestUrl(url, hostname, "https")]
      ELSE IF Len(results) = 1 THEN [probe |-> "http"]
      ELSE IF form = "root" /\ (results[1] \/ results[2])
           THEN [return |-> TestUrl(url, hostname, "https")]
      ELSE IF results[2] THEN [return |-> TestUrl(url, hostname, "http")]
      ELSE [return |-> url]

\* a plausible slip: a root-relative reference short-circuits like a
\* protocol-relative one
fixImageUrlShortCircuit(url, hostname, results) ==
  LET form == RefForm(url, hostname)
  IN  IF form = "asis" THEN [return |-> url]
      ELSE IF results = <<>> THEN [probe |-> "https"]
      ELSE IF results[1] THEN [return |-> TestUrl(url, hostname, "https")]
      ELSE IF Len(results) = 1 THEN [probe |-> "http"]
      ELSE IF results[2] THEN [return |-> TestUrl(url, hostname, "http")]
      ELSE [return |-> url]

\* LinkMetadataParser.fixImageUrl as its control flow: given the results of the
\* probes it has awaited so far, the probe it issues and awaits next, or the
\* value it returns
fixImageUrl(url, hostname, results) ==
  LET form == RefForm(url, hostname)
  IN  IF form = "asis" THEN [return |-> url]
      ELSE IF results = <<>> THEN [probe |-> "https"]
      ELSE IF form = "protocol" /\ results[1] THEN [return |-> TestUrl(url, hostname, "https")]
      ELSE IF Len(results) = 1 THEN [probe |-> "http"]
      ELSE IF form = "root" /\ results[1] THEN [return |-> TestUrl(url, hostname, "https")]
      ELSE IF results[2] THEN [return |-> TestUrl(url, hostname, "http")]
      ELSE [return |-> url]

(***************************************************************************)
(* State.                                                                  *)
(***************************************************************************)
VARIABLES
  doc,      \* the document: a sequence of cells [c, o]
  sel,      \* the editor's selection [from, to], 0-based offsets, from <= to
  task,     \* the conversions: task[t] is one convertUrlToCodeBlock invocation
  notices,  \* how many notices ("Couldn't fetch link metadata") were shown
  edits,    \* how many plain edits the user has made
  render    \* what CodeBlockProcessor.run has made of a block's source

vars == <<doc, sel, task, notices, edits, render>>

Tasks == 1..MaxOps

\* linkMetadata when fetchLinkMetadata resolved with undefined
Undefined == [undefined |-> TRUE]
\* an asset field of the record that parse has not reached yet
Pending == <<"pending">>
\* no markup: the parser has not been constructed
NoDoc == [ogTitle |-> Absent, title |-> Absent, ogDescription |-> Absent,
          metaDescription |-> Absent, icon |-> Absent, ogImage |-> Absent]

\* a conversion that has not been started.  pc is where the invocation stands:
\*   idle    not started
\*   fetch   suspended at line 41, requestUrl in flight (line 95)
\*   probe   suspended at line 41, a checkUrlAccessibility probe in flight
\*   post    fetchLinkMetadata has resolved and line 43 runs next, in the same
\*           turn of the event loop: no state of the model rests here
\*   done    returned (how: replaced, reverted or aborted)
\*   failed  its promise rejected (how: rejected or threw)
\* fetch is how requestUrl ended (none, throw, reject, status: a response whose
\* status is not 200, ok: a response whose status is 200); log is the probes
\* issued, in order.  before, at, clean and hit are history: the text before
\* the invocation, the offset the placeholder was inserted at, whether only
\* this invocation changed the document since, and whether its replacement hit
\* the placeholder it had inserted
IdleTask ==
  [pc |-> "idle", url |-> <<>>, selectedText |-> <<>>, fetchingText |-> <<>>,
   fetch |-> "none", htmlDoc |-> NoDoc, hostname |-> <<>>, lm |-> Undefined,
   asset |-> "none", log |-> <<>>, how |-> "none",
   before |-> <<>>, at |-> 0, clean |-> TRUE, hit |-> "none"]

InFlight == {"fetch", "probe"}

\* no block has been rendered: run has not been called, nothing has been thrown
\* inside it, and the element it renders into has no child
NoRender ==
  [ran |-> FALSE, source |-> <<>>, data |-> Undefined, thrown |-> "none",
   el |-> <<>>]

\* every in-flight conversion but t has seen the document change under it
Disturbed(tasks, t) ==
  [u \in Tasks |->
     IF u # t /\ tasks[u].pc \in InFlight
     THEN [tasks[u] EXCEPT !.clean = FALSE]
     ELSE tasks[u]]

(***************************************************************************)
(* The inputs of the model.                                                *)
(***************************************************************************)
UrlPlain == <<"h", "t", "t", "p", ":", "/", "/", "a", ".", "b", "c", "/">>
\* a URL that ends with the character that closes a placeholder
UrlParen == UrlPlain \o <<")">>
\* a URL without a scheme, which isUrl accepts
UrlWww == <<"w", "w", "w", ".", "a", ".", "b", "c">>
UrlImage ==
  <<"h", "t", "t", "p", ":", "/", "/", "a", ".", "b", "c", "/", "i", ".", "p", "n", "g">>

\* what the clipboard may hold
ClipTexts == {<<>>, <<"x">>, UrlPlain, UrlParen, UrlWww, UrlImage}
\* a plausible slip: image URLs are converted like any URL
ConvertibleUrls == {c \in ClipTexts : isUrl(c)}

\* the clipboard texts a paste converts: isUrl and not isImage
Convertible == {c \in ClipTexts : isUrl(c) /\ ~isImage(c)}

\* values of createBlockHash (4 characters of a-z0-9)
PasteIds == {<<"a", "a", "a", "a">>, <<"a", "a", "a", "b">>}

\* markups, as what the parser's queries find in them
DocNoTitle == NoDoc
DocOgTitle == [NoDoc EXCEPT !.ogTitle = <<"T">>]
DocAssets == [NoDoc EXCEPT !.title = <<"T">>,
                           !.icon = <<"/", "/", "c", ".", "d", "e", "/", "f">>]
HtmlDocs == {DocNoTitle, DocOgTitle, DocAssets}

\* how requestUrl ends: it throws, its promise rejects, or it resolves with a
\* response
StatusCodes == {200, 204, 404}
FetchOutcomes ==
  {[kind |-> "throw", status |-> 0, htmlDoc |-> NoDoc],
   [kind |-> "reject", status |-> 0, htmlDoc |-> NoDoc]}
  \cup {[kind |-> "response", status |-> 200, htmlDoc |-> h] : h \in HtmlDocs}
  \cup {[kind |-> "response", status |-> c, htmlDoc |-> NoDoc] : c \in StatusCodes \ {200}}

\* the document and the selections the editor starts with
InitialText == <<"a", "\n", "b", "c">>
InitialSelections ==
  {[from |-> 0, to |-> 0], [from |-> 2, to |-> 4], [from |-> 4, to |-> 4]}

(***************************************************************************)
(* LinkMetadataParser.parse and CodeBlockGenerator.fetchLinkMetadata as    *)
(* steps of a conversion between its suspension points.                    *)
(***************************************************************************)
\* the results of the probes awaited so far for an asset, in order
RECURSIVE ProbeResults(_, _)
ProbeResults(log, asset) ==
  IF log = <<>> THEN <<>>
  ELSE IF Head(log).asset = asset /\ Head(log).r # "pending"
       THEN <<Head(log).r = "ok">> \o ProbeResults(Tail(log), asset)
       ELSE ProbeResults(Tail(log), asset)

\* getFavicon / getImage: undefined when the tag is missing, else fixImageUrl
ResolveStep(tk, asset) ==
  LET ref == AssetRef(tk.htmlDoc, asset)
  IN  IF ~Truthy(ref) THEN [return |-> Absent]
      ELSE fixImageUrl(ref, tk.hostname, ProbeResults(tk.log, asset))

\* checkUrlAccessibility(testUrl) is issued and awaited
WithProbe(tk, asset, scheme) ==
  [tk EXCEPT !.pc = "probe", !.asset = asset,
             !.log = Append(@, [asset |-> asset, r |-> "pending",
                                url |-> TestUrl(AssetRef(tk.htmlDoc, asset),
                                                tk.hostname, scheme)])]

\* line 508 and the return of the record (lines 510-518)
ContinueImage(tk) ==
  LET st == ResolveStep(tk, "image")
  IN  IF "probe" \in DOMAIN st THEN WithProbe(tk, "image", st.probe)
      ELSE [tk EXCEPT !.lm.image = st.return, !.pc = "post", !.asset = "none"]

\* line 507
ContinueFavicon(tk) ==
  LET st == ResolveStep(tk, "favicon")
  IN  IF "probe" \in DOMAIN st THEN WithProbe(tk, "favicon", st.probe)
      ELSE ContinueImage([tk EXCEPT !.lm.favicon = st.return])

\* LinkMetadataParser.parse from its start to its first suspension
parse(tk, htmlDoc) ==
  LET title == Normalize(getTitle(htmlDoc))
      description == Normalize(getDescription(htmlDoc))
      parsed == ParseUrl(tk.url)
  IN  IF ~Truthy(title)
      THEN [tk EXCEPT !.htmlDoc = htmlDoc, !.lm = Undefined, !.pc = "post"]
      ELSE IF ~parsed.ok
      THEN [tk EXCEPT !.htmlDoc = htmlDoc, !.pc = "failed", !.how = "threw"]
      ELSE ContinueFavicon(
             [tk EXCEPT !.htmlDoc = htmlDoc, !.hostname = parsed.hostname,
                        !.lm = [url |-> tk.url, title |-> title,
                                description |-> description,
                                host |-> parsed.hostname, favicon |-> Pending,
                                image |-> Pending, indent |-> 0]])

\* CodeBlockGenerator.fetchLinkMetadata once requestUrl has ended.  The try of
\* lines 94-99 returns the promise of requestUrl without awaiting it: the catch
\* sees what requestUrl throws, not the rejection of its promise, which leaves
\* fetchLinkMetadata, and with it convertUrlToCodeBlock, rejected.
fetchLinkMetadata(tk, outcome) ==
  IF outcome.kind = "reject"
  THEN [tk EXCEPT !.fetch = "reject", !.pc = "failed", !.how = "rejected"]
  ELSE IF outcome.kind = "throw"
  THEN [tk EXCEPT !.fetch = "throw", !.lm = Undefined, !.pc = "post"]
  ELSE IF outcome.status # 200
  THEN [tk EXCEPT !.fetch = "status", !.lm = Undefined, !.pc = "post"]
  ELSE parse([tk EXCEPT !.fetch = "ok"], outcome.htmlDoc)

(***************************************************************************)
(* Init and the actions.                                                   *)
(***************************************************************************)
Init ==
  /\ doc = Cells(InitialText, 0)
  /\ sel \in InitialSelections
  /\ task = [t \in Tasks |-> IdleTask]
  /\ notices = 0
  /\ edits = 0
  /\ render = NoRender

\* the user may do one thing more
MayAct == edits + Cardinality({t \in Tasks : task[t].pc # "idle"}) < MaxOps

\* the conversion a new invocation gets: conversions are numbered as invoked
NextTask(t) ==
  /\ MayAct
  /\ task[t].pc = "idle"
  /\ \A u \in Tasks : u < t => task[u].pc # "idle"

\* the conversion that convertUrlToCodeBlock(url) leaves suspended at line 41,
\* invoked on the document d with the selection s
Started(d, s, url, pasteId) ==
  [IdleTask EXCEPT !.pc = "fetch", !.url = url,
                   !.selectedText = getSelection(d, s),
                   !.fetchingText = fetchingText(pasteId, url),
                   !.before = TextOf(d), !.at = s.from]

\* convertUrlToCodeBlock(url) up to its suspension at line 41
Convert(t, url) ==
  \E pasteId \in PasteIds :
    LET ed == replaceSelection(doc, sel, fetchingText(pasteId, url), t)
    IN  /\ doc' = ed.doc
        /\ sel' = ed.sel
        /\ task' = [Disturbed(task, t) EXCEPT ![t] = Started(doc, sel, url, pasteId)]
        /\ UNCHANGED <<notices, edits, render>>

\* the text is pasted as it is: editor.replaceSelection(clipboardText), or the
\* editor's own paste handler for an event the plugin did not take
PlainPaste(clipboardText) ==
  LET ed == replaceSelection(doc, sel, clipboardText, 0)
  IN  /\ MayAct
      /\ doc' = ed.doc
      /\ sel' = ed.sel
      /\ task' = Disturbed(task, 0)
      /\ edits' = edits + 1
      /\ UNCHANGED <<notices, render>>

\* the guards of onPaste (lines 349-367): whether it returns before taking the
\* event.  data is what the event carries: no clipboard data, files, or text.
onPasteReturns(enhanceDefaultPaste, onLine, data, clipboardText) ==
  \/ ~enhanceDefaultPaste
  \/ ~onLine
  \/ data # "text"
  \/ clipboardText = <<>>
  \/ clipboardText \notin Convertible

\* ObsidianAutoCardLink.onPaste on an event that carries data, with the text
\* clipboardText.  An event it returns from without taking is the editor's to
\* paste.
onPasteOf(data, clipboardText) ==
  \/ /\ {f \in BOOLEAN \X BOOLEAN : onPasteReturns(f[1], f[2], data, clipboardText)} # {}
     /\ data = "text" /\ clipboardText # <<>>
     /\ PlainPaste(clipboardText)
  \/ /\ {f \in BOOLEAN \X BOOLEAN : onPasteReturns(f[1], f[2], data, clipboardText)} # {}
     /\ ~(data = "text" /\ clipboardText # <<>>)
     /\ UNCHANGED vars
  \/ /\ {f \in BOOLEAN \X BOOLEAN : ~onPasteReturns(f[1], f[2], data, clipboardText)} # {}
     /\ \E t \in Tasks : NextTask(t) /\ Convert(t, clipboardText)

\* ObsidianAutoCardLink.onPaste
onPaste ==
  \E data \in {"none", "files", "text"}, clipboardText \in ClipTexts :
    onPasteOf(data, clipboardText)

\* ObsidianAutoCardLink.manualPasteAndEnhanceURL, from the moment the clipboard
\* read resolves with clipboardText
manualPasteAndEnhanceURLOf(clipboardText) ==
  \/ /\ clipboardText = <<>>
     /\ UNCHANGED vars
  \/ /\ clipboardText # <<>>
     /\ {onLine \in BOOLEAN : ~onLine \/ clipboardText \notin Convertible} # {}
     /\ PlainPaste(clipboardText)
  \/ /\ clipboardText # <<>>
     /\ {onLine \in BOOLEAN : onLine /\ clipboardText \in Convertible} # {}
     /\ \E t \in Tasks : NextTask(t) /\ Convert(t, clipboardText)

\* ObsidianAutoCardLink.manualPasteAndEnhanceURL
manualPasteAndEnhanceURL ==
  \E clipboardText \in ClipTexts : manualPasteAndEnhanceURLOf(clipboardText)

\* a plausible slip: the revert forgets the selection
RevertTextUrlOnly(tk) == tk.url

\* selectedText || url (line 60)
RevertText(tk) == IF tk.selectedText # <<>> THEN tk.selectedText ELSE tk.url

\* convertUrlToCodeBlock from line 43 to its return, for the conversion t as
\* fetchLinkMetadata left it (tk): no await in between
Resume(t, tk) ==
  LET text == TextOf(doc)
      start == IndexOf(text, tk.fetchingText)
      end == start + Len(tk.fetchingText)
      startPos == getEditorPositionFromIndex(text, start)
      endPos == getEditorPositionFromIndex(text, end)
      own == \A i \in (start + 1)..end : doc[i].o = t
      hit == IF own THEN "own" ELSE "other"
      reverted == replaceRange(doc, sel, RevertText(tk), startPos, endPos)
      replaced == replaceRange(doc, sel, genCodeBlock(tk.lm), startPos, endPos)
  IN  \/ /\ start < 0
         /\ task' = [task EXCEPT ![t] = [tk EXCEPT !.pc = "done", !.how = "aborted"]]
         /\ UNCHANGED <<doc, sel, notices>>
      \/ /\ start >= 0
         /\ tk.lm = Undefined
         /\ notices' = notices + 1
         /\ doc' = reverted.doc
         /\ sel' = reverted.sel
         /\ task' = [Disturbed(task, t) EXCEPT
                       ![t] = [tk EXCEPT !.pc = "done", !.how = "reverted", !.hit = hit]]
      \/ /\ start >= 0
         /\ tk.lm # Undefined
         /\ doc' = replaced.doc
         /\ sel' = replaced.sel
         /\ task' = [Disturbed(task, t) EXCEPT
                       ![t] = [tk EXCEPT !.pc = "done", !.how = "replaced", !.hit = hit]]
         /\ UNCHANGED notices

\* the conversion t runs on from an event (the end of its request or of a
\* probe) as far as tk: to its next suspension, to its rejection, or through
\* line 43 to its return
RunOn(t, tk) ==
  \/ /\ tk.pc # "post"
     /\ task' = [task EXCEPT ![t] = tk]
     /\ UNCHANGED <<doc, sel, notices>>
  \/ /\ tk.pc = "post"
     /\ Resume(t, tk)

\* requestUrl ends in one of outcomes; fetchLinkMetadata, parse and
\* convertUrlToCodeBlock run on
FetchSettlesWith(t, outcomes) ==
  /\ task[t].pc = "fetch"
  /\ \E outcome \in outcomes : RunOn(t, fetchLinkMetadata(task[t], outcome))
  /\ UNCHANGED <<edits, render>>

FetchSettles(t) == FetchSettlesWith(t, FetchOutcomes)

\* the probe in flight ends (img.onload or img.onerror); fixImageUrl, parse and
\* convertUrlToCodeBlock run on
ProbeSettles(t) ==
  /\ task[t].pc = "probe"
  /\ \E ok \in BOOLEAN :
       LET n == Len(task[t].log)
           settled == [task[t] EXCEPT !.log[n].r = IF ok THEN "ok" ELSE "fail"]
       IN  RunOn(t, IF task[t].asset = "favicon" THEN ContinueFavicon(settled)
                    ELSE ContinueImage(settled))
  /\ UNCHANGED <<edits, render>>

\* the user deletes the selection, or the character before the cursor
Backspace ==
  /\ MayAct
  /\ sel.to > 0
  /\ LET a == IF sel.from = sel.to THEN sel.from - 1 ELSE sel.from
     IN  /\ doc' = Slice(doc, 0, a) \o Slice(doc, sel.to, Len(doc))
         /\ sel' = [from |-> a, to |-> a]
  /\ task' = Disturbed(task, 0)
  /\ edits' = edits + 1
  /\ UNCHANGED <<notices, render>>

Next ==
  \/ onPaste
  \/ manualPasteAndEnhanceURL
  \/ \E t \in Tasks : FetchSettles(t)
  \/ \E t \in Tasks : ProbeSettles(t)
  \/ Backspace

Spec == Init /\ [][Next]_vars

(***************************************************************************)
(* The asset URL resolver on its own: one conversion, started on the       *)
(* initial document, whose page holds any of a wider choice of asset       *)
(* references.                                                             *)
(***************************************************************************)
\* page URLs: a plain one, one whose host has an upper-case letter, and one
\* that isUrl accepts and that parses with no host (its scheme is www.a.bc)
UrlUpper == <<"h", "t", "t", "p", "s", ":", "/", "/", "A", ".", "b", "c", "/", "x">>
UrlNoHost == <<"w", "w", "w", ".", "a", ".", "b", "c", ":", "8", "0">>
ResolverUrls == {UrlPlain, UrlUpper, UrlNoHost}

\* asset references: none, protocol-relative, root-relative, absolute, relative
RefProtocol == <<"/", "/", "c", ".", "d", "e", "/", "f">>
RefRoot == <<"/", "i">>
RefAbsolute == <<"h", "t", "t", "p", ":", "/", "/", "c", ".", "d", "e", "/", "g">>
RefRelative == <<"f", ".", "i", "c", "o">>
AssetRefs == {Absent, RefProtocol, RefRoot, RefAbsolute, RefRelative}

ResolverOutcomes ==
  {[kind |-> "response", status |-> 200,
    htmlDoc |-> [NoDoc EXCEPT !.title = <<"T">>, !.icon = i, !.ogImage = g]] :
     i \in AssetRefs, g \in AssetRefs}

InitResolver ==
  \E url \in ResolverUrls, pasteId \in PasteIds :
    LET d == Cells(InitialText, 0)
        s == [from |-> 4, to |-> 4]
        ed == replaceSelection(d, s, fetchingText(pasteId, url), 1)
    IN  /\ url \in {c \in ResolverUrls : isUrl(c) /\ ~isImage(c)}
        /\ doc = ed.doc
        /\ sel = ed.sel
        /\ task = [t \in Tasks |-> IF t = 1 THEN Started(d, s, url, pasteId)
                                   ELSE IdleTask]
        /\ notices = 0
        /\ edits = 0
        /\ render = NoRender

NextResolver ==
  \/ \E t \in Tasks : FetchSettlesWith(t, ResolverOutcomes)
  \/ \E t \in Tasks : ProbeSettles(t)

SpecResolver == InitResolver /\ [][NextResolver]_vars

(***************************************************************************)
(* CodeBlockProcessor (src/unnamed/part_001): the source of a cardlink     *)
(* block is parsed into a record and rendered.                             *)
(***************************************************************************)
\* the indexes of s at which a match of /\r?\n|\r|\n/ starts: a \n that
\* follows a \r belongs to the match that starts at the \r
LineBreaks(s) ==
  {i \in 1..Len(s) :
     \/ s[i] = "\r"
     \/ s[i] = "\n" /\ ~(i > 1 /\ s[i - 1] = "\r")}

\* the end of the match that starts at index b of s
BreakEnd(s, b) ==
  IF s[b] = "\r" /\ b < Len(s) /\ s[b + 1] = "\n" THEN b + 1 ELSE b

\* the index at which the k-th match starts, Len(s) + 1 after the last
NthBreak(s, k) ==
  IF k > Cardinality(LineBreaks(s)) THEN Len(s) + 1
  ELSE CHOOSE b \in LineBreaks(s) :
         Cardinality({c \in LineBreaks(s) : c <= b}) = k

\* String.prototype.split(/\r?\n|\r|\n/g): the lines of s
SplitLines(s) ==
  [k \in 1..(Cardinality(LineBreaks(s)) + 1) |->
     SubSeq(s, IF k = 1 THEN 1 ELSE BreakEnd(s, NthBreak(s, k - 1)) + 1,
            NthBreak(s, k) - 1)]

\* the length of the match of /^\t+/ in line, 0 when there is none
RECURSIVE LeadingTabs(_)
LeadingTabs(line) ==
  IF line # <<>> /\ Head(line) = "\t" THEN 1 + LeadingTabs(Tail(line)) ELSE 0

\* " ".repeat(n)
Spaces(n) == [i \in 1..n |-> " "]

\* a plausible slip: every tab-indented line sets indent anew
RECURSIVE TabsToSpacesLastWins(_, _)
TabsToSpacesLastWins(lines, indent) ==
  IF lines = <<>> THEN [lines |-> <<>>, indent |-> indent]
  ELSE LET n == LeadingTabs(Head(lines))
           line == Spaces(n) \o SubSeq(Head(lines), n + 1, Len(Head(lines)))
           rest == TabsToSpacesLastWins(Tail(lines), IF n > 0 THEN n ELSE indent)
       IN  [lines |-> <<line>> \o rest.lines, indent |-> rest.indent]

\* the map of lines 72-80 over the lines, in order, with the indent it leaves:
\* the callback runs for a line that begins with tabs, and sets indent only
\* while it is negative
RECURSIVE TabsToSpaces(_, _)
TabsToSpaces(lines, indent) ==
  IF lines = <<>> THEN [lines |-> <<>>, indent |-> indent]
  ELSE LET n == LeadingTabs(Head(lines))
           line == Spaces(n) \o SubSeq(Head(lines), n + 1, Len(Head(lines)))
           rest == TabsToSpaces(Tail(lines),
                                IF n > 0 /\ indent < 0 THEN n ELSE indent)
       IN  [lines |-> <<line>> \o rest.lines, indent |-> rest.indent]

(***************************************************************************)
(* parseYaml (obsidian), called at line 84, as YAML reads the texts it is  *)
(* handed here: entries "key: value" at one indentation whose values are   *)
(* double-quoted (with the escapes \\ and \") or plain, plain lines, and   *)
(* blank lines.  Flow collections, anchors, tags, block scalars and nested *)
(* mappings are outside these texts.                                       *)
(***************************************************************************)
\* the number of leading spaces of line
RECURSIVE LeadingSpaces(_)
LeadingSpaces(line) ==
  IF line # <<>> /\ Head(line) = " " THEN 1 + LeadingSpaces(Tail(line)) ELSE 0

\* the index of the colon that ends the key of an entry (a colon followed by a
\* space or by the end of the line), 0 for a line that is no entry
KeyEnd(content) ==
  LET ends == {i \in 2..Len(content) :
                 content[i] = ":" /\ (i = Len(content) \/ content[i + 1] = " ")}
  IN  IF ends = {} THEN 0 ELSE CHOOSE i \in ends : \A j \in ends : i <= j

\* a double-quoted scalar read from index i of s, after the opening quote: it
\* is well formed when its closing quote ends s
RECURSIVE Unquote(_, _)
Unquote(s, i) ==
  IF i > Len(s) THEN [ok |-> FALSE, v |-> <<>>]
  ELSE IF s[i] = "\"" THEN [ok |-> i = Len(s), v |-> <<>>]
  ELSE IF s[i] = "\\"
  THEN IF i < Len(s) /\ s[i + 1] \in {"\\", "\""}
       THEN LET r == Unquote(s, i + 2) IN [ok |-> r.ok, v |-> <<s[i + 1]>> \o r.v]
       ELSE [ok |-> FALSE, v |-> <<>>]
  ELSE LET r == Unquote(s, i + 1) IN [ok |-> r.ok, v |-> <<s[i]>> \o r.v]

\* the YAML null, and a YAML integer with its digits
YamlNull == <<"null">>
YamlNumber(digits) == <<"number">> \o digits

\* where a comment starts in a plain scalar (a # at its start or after a
\* space), or Len(v) + 1
CommentStart(v) ==
  LET starts == {i \in 1..Len(v) : v[i] = "#" /\ (i = 1 \/ v[i - 1] = " ")}
  IN  IF starts = {} THEN Len(v) + 1 ELSE CHOOSE i \in starts : \A j \in starts : i <= j

\* a plain scalar: a colon at its end or before a space would start a mapping
\* inside the value, which YAML refuses on one line
PlainScalar(v) ==
  LET w == TrimEnd(SubSeq(v, 1, CommentStart(v) - 1))
  IN  IF \E i \in 1..Len(w) : w[i] = ":" /\ (i = Len(w) \/ w[i + 1] = " ")
      THEN [ok |-> FALSE, v |-> <<>>]
      ELSE IF w = <<>> THEN [ok |-> TRUE, v |-> YamlNull]
      ELSE IF \A i \in 1..Len(w) : w[i] \in Digits
      THEN [ok |-> TRUE, v |-> YamlNumber(w)]
      ELSE [ok |-> TRUE, v |-> w]

\* the value of an entry
YamlValue(v) ==
  IF v # <<>> /\ Head(v) = "\"" THEN Unquote(v, 2) ELSE PlainScalar(v)

\* the value of key in the mapping pairs, undefined when it has none
RECURSIVE YamlGet(_, _)
YamlGet(pairs, key) ==
  IF pairs = <<>> THEN Absent
  ELSE IF Head(pairs).key = key THEN Head(pairs).value
  ELSE YamlGet(Tail(pairs), key)

\* the plain lines that continue the plain value of the entry before index i:
\* they are indented deeper than the entries
RECURSIVE Continuation(_, _, _)
Continuation(ls, base, i) ==
  IF i <= Len(ls) /\ ls[i].indent > base /\ KeyEnd(ls[i].content) = 0
  THEN <<ls[i].content>> \o Continuation(ls, base, i + 1)
  ELSE <<>>

\* " " joined to each line of a continuation
RECURSIVE Folded(_)
Folded(conts) ==
  IF conts = <<>> THEN <<>> ELSE <<" ">> \o Head(conts) \o Folded(Tail(conts))

\* the block mapping of the lines ls from index i on, pairs being its entries
\* so far
RECURSIVE YamlEntries(_, _, _, _)
YamlEntries(ls, base, i, pairs) ==
  IF i > Len(ls) THEN [kind |-> "map", pairs |-> pairs]
  ELSE
    LET content == ls[i].content
        k == KeyEnd(content)
        key == SubSeq(content, 1, k - 1)
        raw == TrimStart(SubSeq(content, k + 1, Len(content)))
        conts == IF raw # <<>> /\ Head(raw) # "\"" THEN Continuation(ls, base, i + 1)
                 ELSE <<>>
        value == YamlValue(raw \o Folded(conts))
    IN  IF ls[i].indent # base \/ k = 0 THEN [kind |-> "throws"]
        ELSE IF YamlGet(pairs, key) # Absent \/ ~value.ok THEN [kind |-> "throws"]
        ELSE YamlEntries(ls, base, i + 1 + Len(conts),
                         Append(pairs, [key |-> key, value |-> value.v]))

\* the lines of text that are not blank, each with its indentation
YamlLines(text) ==
  LET all == SplitLines(text)
      held == SelectSeq(all, LAMBDA line : TrimEnd(line) # <<>>)
  IN  [i \in 1..Len(held) |->
         [indent |-> LeadingSpaces(held[i]),
          content |-> TrimEnd(SubSeq(held[i], LeadingSpaces(held[i]) + 1,
                                     Len(held[i])))]]

\* parseYaml(source): it throws, or returns null (an empty text), a scalar
\* (plain lines alone) or a mapping
parseYaml(text) ==
  LET ls == YamlLines(text)
  IN  IF ls = <<>> THEN [kind |-> "null"]
      ELSE IF \A i \in 1..Len(ls) : KeyEnd(ls[i].content) = 0
      THEN [kind |-> "scalar"]
      ELSE YamlEntries(ls, ls[1].indent, 1, <<>>)

(***************************************************************************)
(* CodeBlockProcessor.parseLinkMetadataFromYaml, genLinkEl and run.        *)
(***************************************************************************)
\* JavaScript truthiness of a value of the mapping
YamlTruthy(v) ==
  /\ v \notin {Absent, YamlNull, <<>>}
  /\ v[1] = "number" => \E i \in 2..Len(v) : v[i] # "0"

\* a value of the mapping is a string
IsString(v) == v \notin {Absent, YamlNull} /\ (v = <<>> \/ v[1] # "number")

YamlParseErrorMessage ==
  <<"f", "a", "i", "l", "e", "d", " ", "t", "o", " ", "p", "a", "r", "s",
    "e", " ", "y", "a", "m", "l", ".", " ", "C", "h", "e", "c", "k", " ",
    "d", "e", "b", "u", "g", " ", "c", "o", "n", "s", "o", "l", "e", " ",
    "f", "o", "r", " ", "m", "o", "r", "e", " ", "d", "e", "t", "a", "i",
    "l", ".">>

NoRequiredParamsErrorMessage ==
  <<"r", "e", "q", "u", "i", "r", "e", "d", " ", "p", "a", "r", "a", "m",
    "s", "[", "u", "r", "l", ",", " ", "t", "i", "t", "l", "e", "]", " ",
    "a", "r", "e", " ", "n", "o", "t", " ", "f", "o", "u", "n", "d", ".">>

InternalLinksMessage ==
  <<"i", "n", "t", "e", "r", "n", "a", "l", " ", "l", "i", "n", "k", "s",
    " ", "m", "u", "s", "t", " ", "b", "e", " ", "s", "u", "r", "r", "o",
    "u", "n", "d", "e", "d", " ", "b", "y", " ", "q", "u", "o", "t", "e",
    "s", ".">>

ErrorPrefix ==
  <<"c", "a", "r", "d", "l", "i", "n", "k", " ", "e", "r", "r", "o", "r",
    ":", " ">>

KeyUrl == <<"u", "r", "l">>
KeyTitle == <<"t", "i", "t", "l", "e">>
KeyDescription == <<"d", "e", "s", "c", "r", "i", "p", "t", "i", "o", "n">>
KeyHost == <<"h", "o", "s", "t">>
KeyFavicon == <<"f", "a", "v", "i", "c", "o", "n">>
KeyImage == <<"i", "m", "a", "g", "e">>

\* a plausible slip: a text that is no mapping counts as a parse failure
ParseTabbedMappingOnly(tabbed) ==
  LET yaml == parseYaml(JoinLines(tabbed.lines))
  IN  IF yaml.kind \in {"throws", "scalar"}
      THEN [thrown |-> "YamlParseError", message |-> YamlParseErrorMessage]
      ELSE IF \/ yaml.kind # "map"
              \/ ~YamlTruthy(YamlGet(yaml.pairs, KeyUrl))
              \/ ~YamlTruthy(YamlGet(yaml.pairs, KeyTitle))
      THEN [thrown |-> "NoRequiredParamsError",
            message |-> NoRequiredParamsErrorMessage]
      ELSE [thrown |-> "none",
            data |-> [url |-> YamlGet(yaml.pairs, KeyUrl),
                      title |-> YamlGet(yaml.pairs, KeyTitle),
                      description |-> YamlGet(yaml.pairs, KeyDescription),
                      host |-> YamlGet(yaml.pairs, KeyHost),
                      favicon |-> YamlGet(yaml.pairs, KeyFavicon),
                      image |-> YamlGet(yaml.pairs, KeyImage),
                      indent |-> tabbed.indent]]

\* what parseLinkMetadataFromYaml does with the lines tabbed (the lines after
\* lines 70-81, with the indent found)
ParseTabbed(tabbed) ==
  LET yaml == parseYaml(JoinLines(tabbed.lines))
  IN  IF yaml.kind = "throws"
      THEN [thrown |-> "YamlParseError", message |-> YamlParseErrorMessage]
      ELSE IF \/ yaml.kind # "map"
              \/ ~YamlTruthy(YamlGet(yaml.pairs, KeyUrl))
              \/ ~YamlTruthy(YamlGet(yaml.pairs, KeyTitle))
      THEN [thrown |-> "NoRequiredParamsError",
            message |-> NoRequiredParamsErrorMessage]
      ELSE [thrown |-> "none",
            data |-> [url |-> YamlGet(yaml.pairs, KeyUrl),
                      title |-> YamlGet(yaml.pairs, KeyTitle),
                      description |-> YamlGet(yaml.pairs, KeyDescription),
                      host |-> YamlGet(yaml.pairs, KeyHost),
                      favicon |-> YamlGet(yaml.pairs, KeyFavicon),
                      image |-> YamlGet(yaml.pairs, KeyImage),
                      indent |-> tabbed.indent]]

\* a plausible slip: indent starts at 0 instead of -1
parseLinkMetadataFromYamlIndentZero(source) ==
  ParseTabbed(TabsToSpaces(SplitLines(source), 0))

\* CodeBlockProcessor.parseLinkMetadataFromYaml: the record it returns, or the
\* error it throws
parseLinkMetadataFromYaml(source) ==
  ParseTabbed(TabsToSpaces(SplitLines(source), -1))

\* CodeBlockProcessor.genLinkEl.  A favicon or image that is no string and no
\* URL goes to getLocalImagePath, whose link.slice throws a TypeError; fails
\* says that a call into the document or into obsidian throws an error of
\* another class.
genLinkEl(data, fails) ==
  IF \/ YamlTruthy(data.favicon) /\ ~IsString(data.favicon)
     \/ YamlTruthy(data.image) /\ ~IsString(data.image)
  THEN [thrown |-> "TypeError"]
  ELSE IF fails THEN [thrown |-> "Error"]
  ELSE [thrown |-> "none",
        el |-> [kind |-> "card", depth |-> data.indent, href |-> data.url,
                title |-> data.title]]

\* CodeBlockProcessor.genErrorEl
genErrorEl(errorMsg) == [kind |-> "error", text |-> ErrorPrefix \o errorMsg]

\* lines 39-41 of run, inside the try, on what parseLinkMetadataFromYaml gave:
\* what is thrown there, and the element made when nothing is
TryRender(parsed, fails) ==
  IF parsed.thrown = "none" THEN genLinkEl(parsed.data, fails) ELSE parsed

\* a plausible slip: every failure is shown, an unrecognized one too
CaughtShowsAll(el, made) ==
  IF made.thrown = "none" THEN Append(el, made.el)
  ELSE IF made.thrown \in {"NoRequiredParamsError", "YamlParseError"}
  THEN Append(el, genErrorEl(made.message))
  ELSE Append(el, genErrorEl(InternalLinksMessage))

\* the catch of lines 42-55 on what the try gave: the children of the element
\* afterwards
Caught(el, made) ==
  IF made.thrown = "none" THEN Append(el, made.el)
  ELSE IF made.thrown \in {"NoRequiredParamsError", "YamlParseError"}
  THEN Append(el, genErrorEl(made.message))
  ELSE IF made.thrown = "TypeError"
  THEN Append(el, genErrorEl(InternalLinksMessage))
  ELSE el

\* run once the source is parsed
RunParsed(source, el, parsed, made) ==
  [ran |-> TRUE,
   source |-> source,
   data |-> IF parsed.thrown = "none" THEN parsed.data ELSE Undefined,
   thrown |-> made.thrown,
   el |-> Caught(el, made)]

RunTry(source, el, fails, parsed) ==
  RunParsed(source, el, parsed, TryRender(parsed, fails))

\* CodeBlockProcessor.run on an element whose children are el: what was parsed,
\* what was thrown inside the try, and the children afterwards
run(source, el, fails) ==
  RunTry(source, el, fails, parseLinkMetadataFromYaml(source))

(***************************************************************************)
(* Rendering on its own: run is called once on the source of a block.      *)
(***************************************************************************)
\* the most tabs before a line, and the most lines of a source
MaxTabs == 2
MaxLines == 3

\* the lines of a source: a url, a title, an empty title, a title whose quote
\* is not closed, a plain line, and a favicon that is a number
LineTexts ==
  {<<"u", "r", "l", ":", " ", "u">>,
   <<"t", "i", "t", "l", "e", ":", " ", "\"", "T", "\"">>,
   <<"t", "i", "t", "l", "e", ":", " ", "\"", "\"">>,
   <<"t", "i", "t", "l", "e", ":", " ", "\"", "T">>,
   <<"x">>,
   <<"f", "a", "v", "i", "c", "o", "n", ":", " ", "1">>}

\* the lines that also come indented by tabs: the empty line, the url and the
\* title
TabbedTexts ==
  {<<>>,
   <<"u", "r", "l", ":", " ", "u">>,
   <<"t", "i", "t", "l", "e", ":", " ", "\"", "T", "\"">>}

SourceLines ==
  LineTexts \cup {[i \in 1..n |-> "\t"] \o l : n \in 1..MaxTabs, l \in TabbedTexts}

Sources ==
  {JoinLines(ls) : ls \in UNION {[1..k -> SourceLines] : k \in 0..MaxLines}}

InitRender ==
  /\ doc = Cells(InitialText, 0)
  /\ sel = [from |-> 0, to |-> 0]
  /\ task = [t \in Tasks |-> IdleTask]
  /\ notices = 0
  /\ edits = 0
  /\ render = NoRender

\* the markdown post processor calls run on the source of a block
Render ==
  /\ ~render.ran
  /\ \E source \in Sources, fails \in BOOLEAN :
       render' = run(source, render.el, fails)
  /\ UNCHANGED <<doc, sel, task, notices, edits>>

NextRender == Render

SpecRender == InitRender /\ [][NextRender]_vars

(***************************************************************************)
(* Extraction, serialization and rendering in a row: one conversion,       *)
(* started on the initial document, of a page whose title, description and *)
(* assets vary; once its block is in the document the block is rendered.   *)
(***************************************************************************)
UrlExample ==
  <<"h", "t", "t", "p", "s", ":", "/", "/", "e", "x", "a", "m", "p", "l", "e",
    ".", "c", "o", "m">>
ExtractorUrls == {UrlExample, UrlWww, UrlNoHost}

ExampleTitle ==
  <<"E", "x", "a", "m", "p", "l", "e", " ", "T", "i", "t", "l", "e">>
\* a text with surrounding whitespace, a backslash, a quote and the three
\* newline variants
RawText == <<" ", "\\", "\"", "\r", "\n", "a", "\n", "\r", " ">>
\* references that are no URL: a number, and a text that ends with a colon
RefNumber == <<"1">>
RefColon == <<"g", ":">>

ExtractorDocs ==
  {[ogTitle |-> ogTitle, title |-> title, ogDescription |-> ogDescription,
    metaDescription |-> Absent, icon |-> icon, ogImage |-> ogImage] :
     ogTitle \in {Absent, ExampleTitle, <<" ">>, RawText},
     title \in {Absent, <<"T", "\n">>},
     ogDescription \in {Absent, RawText},
     icon \in {Absent, RefProtocol},
     ogImage \in {Absent, RefNumber, RefColon}}

ExtractorOutcomes ==
  {[kind |-> "response", status |-> 200, htmlDoc |-> d] : d \in ExtractorDocs}

InitExtractor ==
  \E url \in ExtractorUrls :
    LET d == Cells(InitialText, 0)
        s == [from |-> 4, to |-> 4]
        pasteId == CHOOSE id \in PasteIds : TRUE
        ed == replaceSelection(d, s, fetchingText(pasteId, url), 1)
    IN  /\ url \in {c \in ExtractorUrls : isUrl(c) /\ ~isImage(c)}
        /\ doc = ed.doc
        /\ sel = ed.sel
        /\ task = [t \in Tasks |-> IF t = 1 THEN Started(d, s, url, pasteId)
                                   ELSE IdleTask]
        /\ notices = 0
        /\ edits = 0
        /\ render = NoRender

\* the opening line of a cardlink block
CardlinkFence == Fence \o <<"c", "a", "r", "d", "l", "i", "n", "k", "\n">>

\* the text holds a cardlink block
HasBlock(text) ==
  /\ IndexOf(text, CardlinkFence) >= 0
  /\ IndexOfFrom(text, <<"\n">> \o Fence, IndexOf(text, CardlinkFence)) >= 0

\* the source of the first cardlink block of text, as the markdown renderer
\* hands it to the processor registered at line 244 of main.ts: the lines
\* between the fences
BlockSource(text) ==
  LET open == IndexOf(text, CardlinkFence) + Len(CardlinkFence)
      close == IndexOfFrom(text, <<"\n">> \o Fence, open - 1)
  IN  Slice(text, open, close)

\* the preview renders the block of the document
RenderDocument ==
  /\ ~render.ran
  /\ HasBlock(TextOf(doc))
  /\ \E fails \in BOOLEAN :
       render' = run(BlockSource(TextOf(doc)), render.el, fails)
  /\ UNCHANGED <<doc, sel, task, notices, edits>>

NextExtractor ==
  \/ \E t \in Tasks : FetchSettlesWith(t, ExtractorOutcomes)
  \/ \E t \in Tasks : ProbeSettles(t)
  \/ RenderDocument

SpecExtractor == InitExtractor /\ [][NextExtractor]_vars

(***************************************************************************)
(* The enhance command: enhanceSelectedURL and getUrlFromLink (src/main.ts)*)
(* over EditorExtensions.getSelectedText (src/editor_enhancements.ts),     *)
(* CheckIf.isLinkedUrl (src/checkif.ts) and the link expressions of        *)
(* src/regex.ts.                                                           *)
(***************************************************************************)
\* the least element of a set of numbers, 0 for the empty set
Least(S) == IF S = {} THEN 0 ELSE CHOOSE k \in S : \A m \in S : k <= m
\* the greatest element of a set of numbers, 0 for the empty set
Greatest(S) == IF S = {} THEN 0 ELSE CHOOSE k \in S : \A m \in S : k >= m

\* \[([^[\]]*)\] from index i of s: the index of the "]" that closes the text,
\* which is the first bracket after i, or 0 if that is no closing bracket
LinkTextEnd(s, i) ==
  IF Least({k \in (i + 1)..Len(s) : s[k] \in {"[", "]"}}) = 0 THEN 0
  ELSE IF s[Least({k \in (i + 1)..Len(s) : s[k] \in {"[", "]"}})] = "]"
  THEN Least({k \in (i + 1)..Len(s) : s[k] \in {"[", "]"}})
  ELSE 0

\* \[([^[\]]*)\]\((<url>)\) matches s from index i to index e, the text closing
\* at index j
LinkFromToVia(s, i, e, j) ==
  /\ j > 0
  /\ j + 1 < e
  /\ s[j + 1] = "("
  /\ s[e] = ")"
  /\ isUrl(SubSeq(s, j + 2, e - 1))

LinkFromTo(s, i, e) ==
  /\ i >= 1
  /\ e <= Len(s)
  /\ i < e
  /\ s[i] = "["
  /\ LinkFromToVia(s, i, e, LinkTextEnd(s, i))

\* CheckIf.isLinkedUrl: linkRegex.test(text)
isLinkedUrl(text) == LinkFromTo(text, 1, Len(text))

\* getUrlFromLink: group 2 of linkRegex, "" when the link does not match
getUrlFromLink(link) ==
  IF ~isLinkedUrl(link) THEN <<>>
  ELSE SubSeq(link, LinkTextEnd(link, 1) + 2, Len(link) - 1)

\* the indices at which /[\n ]/ matches in s
Separators(s) == {i \in 1..Len(s) : s[i] \in {"\n", " "}}

\* the index of the k-th separator of s: 0 before the first, Len(s) + 1 after
\* the last
NthSeparator(s, k) ==
  IF k = 0 THEN 0
  ELSE IF k > Cardinality(Separators(s)) THEN Len(s) + 1
  ELSE CHOOSE b \in Separators(s) :
         Cardinality({c \in Separators(s) : c <= b}) = k

\* String.prototype.split(/[\n ]/)
SplitTokens(s) ==
  [k \in 1..(Cardinality(Separators(s)) + 1) |->
     SubSeq(s, NthSeparator(s, k - 1) + 1, NthSeparator(s, k) - 1)]

\* the index at which the run of non-space characters from index i of s ends
RunEnd(s, i) ==
  Least({e \in i..Len(s) : e = Len(s) \/ IsSpace(s[e + 1])})

\* lineRegex matched at index i of line: the index its match ends at, 0 if it
\* does not match there.  Every alternative ends in the greedy [^\s]{2,}, so a
\* match runs to the end of the run of non-space characters
UrlEndAt(line, i) ==
  IF ~IsSpace(line[i]) /\ isUrl(SubSeq(line, i, RunEnd(line, i)))
  THEN RunEnd(line, i)
  ELSE 0

\* linkLineRegex matched at index i of line: the index its match ends at, 0 if
\* it does not match there.  The greedy [^\s]{2,} gives back characters until
\* the closing parenthesis matches, so the match ends at the last one it can
LinkEndAt(line, i) ==
  Greatest({e \in (i + 1)..Len(line) : LinkFromTo(line, i, e)})

\* the expression (links: linkLineRegex, else lineRegex) matched at index i
MatchEndAt(line, i, links) ==
  IF links THEN LinkEndAt(line, i) ELSE UrlEndAt(line, i)

\* the matches of line.matchAll(expression) from index i on, in order, as the
\* pairs match.index and match.index + match[0].length: each search starts
\* where the match before it ended
RECURSIVE MatchAllFrom(_, _, _)
MatchAllFrom(line, i, links) ==
  LET k == Least({m \in i..Len(line) : MatchEndAt(line, m, links) > 0})
  IN  IF k = 0 THEN <<>>
      ELSE <<[startIndex |-> k - 1, endIndex |-> MatchEndAt(line, k, links)]>>
             \o MatchAllFrom(line, MatchEndAt(line, k, links) + 1, links)

\* isCursorWithinBoundaries
isCursorWithinBoundaries(ch, match) ==
  match.startIndex <= ch /\ ch <= match.endIndex

\* the first match of matches the cursor is within, as a sequence of at most
\* one match
FirstWithin(matches, ch) ==
  IF \A k \in 1..Len(matches) : ~isCursorWithinBoundaries(ch, matches[k])
  THEN <<>>
  ELSE <<matches[Least({k \in 1..Len(matches) :
                          isCursorWithinBoundaries(ch, matches[k])})]>>

\* the offset at which the line of the offset cursor starts, and ends
LineStartOf(text, cursor) ==
  Greatest({i \in 0..cursor : i = 0 \/ text[i] = "\n"})
LineEndOf(text, cursor) ==
  IF \A i \in cursor..(Len(text) - 1) : text[i + 1] # "\n" THEN Len(text)
  ELSE Least({i \in cursor..(Len(text) - 1) : text[i + 1] = "\n"})

\* the return statements of getWordBoundaries, given the link and the URL the
\* cursor is within (each a sequence of at most one match), as offsets
BoundariesOf(lineStart, cursor, link, url) ==
  IF link # <<>>
  THEN [from |-> lineStart + link[1].startIndex,
        to |-> lineStart + link[1].endIndex]
  ELSE IF url # <<>>
  THEN [from |-> lineStart + url[1].startIndex,
        to |-> lineStart + url[1].endIndex]
  ELSE [from |-> cursor, to |-> cursor]

\* getWordBoundaries for the cursor on the line lineText, which starts at the
\* offset lineStart
BoundariesIn(lineText, lineStart, cursor) ==
  BoundariesOf(lineStart, cursor,
               FirstWithin(MatchAllFrom(lineText, 1, TRUE), cursor - lineStart),
               FirstWithin(MatchAllFrom(lineText, 1, FALSE), cursor - lineStart))

getWordBoundaries(text, cursor) ==
  BoundariesIn(Slice(text, LineStartOf(text, cursor), LineEndOf(text, cursor)),
               LineStartOf(text, cursor), cursor)

\* the selection EditorExtensions.getSelectedText leaves: the selection, or
\* with nothing selected the link or URL the cursor is at
SelectionOf(d, s) ==
  IF s.from # s.to THEN s ELSE getWordBoundaries(TextOf(d), s.from)

\* a plausible slip: the loop tests for URLs only
ConvertedUrlPlainOnly(line) == IF isUrl(line) THEN <<line>> ELSE <<>>

\* the body of the loop of enhanceSelectedURL: what it hands to
\* convertUrlToCodeBlock for the token line, as a sequence of at most one URL
ConvertedUrl(line) ==
  IF isUrl(line) THEN <<line>>
  ELSE IF isLinkedUrl(line) THEN <<getUrlFromLink(line)>>
  ELSE <<>>

\* the URLs the loop converts, from the k-th token on, in order
RECURSIVE UrlsOf(_, _)
UrlsOf(tokens, k) ==
  IF k > Len(tokens) THEN <<>>
  ELSE ConvertedUrl(tokens[k]) \o UrlsOf(tokens, k + 1)

\* the first conversion not yet invoked
FirstIdle(tasks) == Least({t \in Tasks : tasks[t].pc = "idle"})

\* convertUrlToCodeBlock(url) up to its suspension at line 41, as conversion t
\* on the editor st (its document, selection and conversions)
ConvertIn(st, t, url, pasteId) ==
  [doc |-> replaceSelection(st.doc, st.sel, fetchingText(pasteId, url), t).doc,
   sel |-> replaceSelection(st.doc, st.sel, fetchingText(pasteId, url), t).sel,
   task |-> [Disturbed(st.task, t) EXCEPT
               ![t] = Started(st.doc, st.sel, url, pasteId)]]

\* the loop of enhanceSelectedURL from its k-th conversion on: the calls are
\* not awaited, so each runs to its suspension before the next is made
RECURSIVE ConvertAll(_, _, _, _)
ConvertAll(st, urls, ids, k) ==
  IF k > Len(urls) THEN st
  ELSE ConvertAll(ConvertIn(st, FirstIdle(st.task), urls[k], ids[k]),
                  urls, ids, k + 1)

\* the editor becomes st
Becomes(st) ==
  /\ doc' = st.doc
  /\ sel' = st.sel
  /\ task' = st.task

\* what enhanceSelectedURL converts of the selection s
EnhancedUrls(d, s) == UrlsOf(SplitTokens(Trim(getSelection(d, s))), 1)

\* the loop of enhanceSelectedURL over urls, the selection being s
EnhanceLoop(s, urls) ==
  /\ Cardinality({t \in Tasks : task[t].pc # "idle"}) + Len(urls) <= MaxOps
  /\ \E ids \in [1..Len(urls) -> PasteIds] :
       Becomes(ConvertAll([doc |-> doc, sel |-> s, task |-> task], urls, ids, 1))
  /\ UNCHANGED <<notices, edits, render>>

\* enhanceSelectedURL once getSelectedText has left the selection s
EnhanceSelection(s) == EnhanceLoop(s, EnhancedUrls(doc, s))

\* the command "enhance selected": getSelectedText may set the selection, and
\* every URL and link of the trimmed selection is converted
enhanceSelectedURL == EnhanceSelection(SelectionOf(doc, sel))

\* a second address, and a Markdown link to it
UrlOther == <<"h", "t", "t", "p", ":", "/", "/", "d", ".", "e", "f", "/">>
LinkOther == <<"[", "t", "]", "(">> \o UrlOther \o <<")">>

\* the documents the command is run on: a URL and a link; a link, a word, an
\* empty token and an image URL within surrounding whitespace; three URLs;
\* words only
EnhanceTexts ==
  {UrlPlain \o <<" ">> \o LinkOther,
   <<" ">> \o LinkOther \o <<"\n", "x", " ", " ">> \o UrlImage \o <<"\n">>,
   UrlPlain \o <<"\n">> \o UrlOther \o <<" ">> \o UrlWww,
   <<"x", " ", "y">>}

\* the pages the requests of the command find
EnhanceOutcomes ==
  {[kind |-> "response", status |-> 404, htmlDoc |-> NoDoc],
   [kind |-> "response", status |-> 200, htmlDoc |-> DocOgTitle]}

InitEnhance ==
  \E text \in EnhanceTexts :
    /\ doc = Cells(text, 0)
    /\ sel \in {s \in [from : 0..Len(text), to : 0..Len(text)] :
                  s.to \in {s.from, Len(text)}}
    /\ task = [t \in Tasks |-> IdleTask]
    /\ notices = 0
    /\ edits = 0
    /\ render = NoRender

NextEnhance ==
  \/ enhanceSelectedURL
  \/ \E t \in Tasks : FetchSettlesWith(t, EnhanceOutcomes)

SpecEnhance == InitEnhance /\ [][NextEnhance]_vars

(***************************************************************************)
(* What the claims speak of.                                               *)
(***************************************************************************)
\* p occurs somewhere in text
Occurs(text, p) == \E i \in 0..(Len(text) - Len(p)) : OccursAt(text, p, i)

\* the offset of the first textual occurrence of p in text, which has one
FirstOccurrence(text, p) ==
  CHOOSE i \in 0..(Len(text) - Len(p)) :
    OccursAt(text, p, i) /\ \A j \in 0..(i - 1) : ~OccursAt(text, p, j)

\* text with the n characters from offset s on replaced by r
Splice(text, s, n, r) == Slice(text, 0, s) \o r \o Slice(text, s + n, Len(text))

\* the characters of the occurrence of tk's placeholder text at offset s are
\* the ones the conversion t inserted
OwnAt(t, s) ==
  \A i \in (s + 1)..(s + Len(task[t].fetchingText)) : doc[i].o = t

\* a placeholder the conversion t inserted is in the document
OwnPlaceholderPresent(t) ==
  \E s \in 0..(Len(doc) - Len(task[t].fetchingText)) :
    OccursAt(TextOf(doc), task[t].fetchingText, s) /\ OwnAt(t, s)

\* in this step the fetchLinkMetadata of the conversion t resolves and
\* convertUrlToCodeBlock runs from line 43 to its return
Resumes(t) == task[t].pc \in InFlight /\ task'[t].pc = "done"

\* the selection text, or the URL when the selection was empty
SelectionOrUrl(tk) == IF tk.selectedText = <<>> THEN tk.url ELSE tk.selectedText

\* neither placeholder text occurs inside the other
Apart(a, b) == ~Occurs(a, b) /\ ~Occurs(b, a)

\* the number of newline characters of text before offset i
NewlinesBefore(text, i) == Cardinality({j \in 1..i : text[j] = "\n"})

\* the offset at which the line holding offset i starts
LineStart(text, i) ==
  LET breaks == {j \in 1..i : text[j] = "\n"}
  IN  IF breaks = {} THEN 0 ELSE CHOOSE j \in breaks : \A k \in breaks : k <= j

\* the line and column of offset i, by counting the newlines before it
ByNewlines(text, i) ==
  [line |-> NewlinesBefore(text, i), ch |-> i - LineStart(text, i)]

\* C1 (as amended): when fetchLinkMetadata resolves with no metadata and the
\* placeholder text is in the document, one notice is shown and the first
\* occurrence of the placeholder text is replaced by the selection text, or by
\* the URL when the selection was empty; if nothing else changed the document
\* in between and that occurrence is the one this invocation inserted, the
\* text afterwards is the text before the invocation when the selection was
\* not empty, and that text with the URL inserted at the cursor when it was.
C1_RevertOnFailure ==
  [][\A t \in Tasks :
       (/\ Resumes(t)
        /\ task'[t].lm = Undefined
        /\ Occurs(TextOf(doc), task[t].fetchingText))
       => LET tk == task[t]
              text == TextOf(doc)
              s == FirstOccurrence(text, tk.fetchingText)
          IN  /\ notices' = notices + 1
              /\ TextOf(doc') =
                   Splice(text, s, Len(tk.fetchingText), SelectionOrUrl(tk))
              /\ (tk.clean /\ OwnAt(t, s) /\ tk.selectedText # <<>>)
                   => TextOf(doc') = tk.before
              /\ (tk.clean /\ OwnAt(t, s) /\ tk.selectedText = <<>>)
                   => TextOf(doc') = Splice(tk.before, tk.at, 0, tk.url)]_vars

\* a conversion of a non-empty selection was reverted, nothing else having
\* changed the document, and the text is the text before the invocation
C1_Witness ==
  \E t \in Tasks :
    /\ task[t].pc = "done"
    /\ task[t].how = "reverted"
    /\ task[t].hit = "own"
    /\ task[t].clean
    /\ task[t].selectedText # <<>>
    /\ notices > 0
    /\ TextOf(doc) = task[t].before

\* C1 as stated: after the revert the text is the text before the invocation
\* whenever nothing else changed the document in between
C1_Stated ==
  [][\A t \in Tasks :
       (/\ Resumes(t)
        /\ task'[t].lm = Undefined
        /\ Occurs(TextOf(doc), task[t].fetchingText))
       => LET tk == task[t]
              text == TextOf(doc)
              s == FirstOccurrence(text, tk.fetchingText)
          IN  /\ notices' = notices + 1
              /\ TextOf(doc') =
                   Splice(text, s, Len(tk.fetchingText), SelectionOrUrl(tk))
              /\ tk.clean => TextOf(doc') = tk.before]_vars

\* C2 as stated: a request that ends in a transport failure, or in a response
\* whose status is not 200, ends as a conversion without metadata: the
\* conversion returns, having reverted its placeholder or found it gone
C2_Stated ==
  \A t \in Tasks :
    task[t].fetch \in {"throw", "reject", "status"}
    => /\ task[t].pc = "done"
       /\ task[t].lm = Undefined
       /\ task[t].how \in {"reverted", "aborted"}

\* what the conversion tk puts in place of its placeholder
Replacement(tk) ==
  IF tk.lm = Undefined THEN SelectionOrUrl(tk) ELSE genCodeBlock(tk.lm)

\* C3 (as amended): a completing conversion replaces the first textual
\* occurrence of its placeholder text, in whatever order the fetches complete;
\* that occurrence is the placeholder it inserted itself whenever its
\* placeholder text and that of every other conversion started are apart:
\* they differ and neither occurs inside the other.
C3_OwnPlaceholder ==
  [][\A t \in Tasks :
       (Resumes(t) /\ Occurs(TextOf(doc), task[t].fetchingText))
       => LET text == TextOf(doc)
              s == FirstOccurrence(text, task[t].fetchingText)
          IN  /\ TextOf(doc') =
                   Splice(text, s, Len(task[t].fetchingText), Replacement(task'[t]))
              /\ (\A u \in Tasks \ {t} :
                    task[u].pc # "idle"
                    => Apart(task[t].fetchingText, task[u].fetchingText))
                 => OwnAt(t, s)]_vars

\* two conversions overlapped, their placeholder texts apart, and each has
\* replaced the placeholder it inserted
C3_Witness ==
  \E t, u \in Tasks :
    /\ t # u
    /\ task[t].pc = "done" /\ task[u].pc = "done"
    /\ task[t].hit = "own" /\ task[u].hit = "own"
    /\ ~task[t].clean
    /\ Apart(task[t].fetchingText, task[u].fetchingText)

\* C3 as stated: a completing conversion replaces the placeholder it inserted
\* itself whenever its placeholder text differs from that of every conversion
\* in flight with it
C3_Stated ==
  [][\A t \in Tasks :
       (Resumes(t) /\ Occurs(TextOf(doc), task[t].fetchingText))
       => LET text == TextOf(doc)
              s == FirstOccurrence(text, task[t].fetchingText)
          IN  /\ TextOf(doc') =
                   Splice(text, s, Len(task[t].fetchingText), Replacement(task'[t]))
              /\ (\A u \in Tasks \ {t} :
                    task[u].pc \in InFlight
                    => task[t].fetchingText # task[u].fetchingText)
                 => OwnAt(t, s)]_vars

\* C4: when fetchLinkMetadata resolves, with metadata or without, and the
\* placeholder text is not in the document, convertUrlToCodeBlock returns and
\* leaves the document, the selection and the notices as they were.
C4_AbsentPlaceholder ==
  [][\A t \in Tasks :
       (Resumes(t) /\ ~Occurs(TextOf(doc), task[t].fetchingText))
       => /\ doc' = doc
          /\ sel' = sel
          /\ notices' = notices
          /\ task'[t].how = "aborted"]_vars

\* a conversion whose extraction succeeded returned without a replacement
C4_Witness ==
  \E t \in Tasks :
    /\ task[t].pc = "done"
    /\ task[t].how = "aborted"
    /\ task[t].lm # Undefined
    /\ ~Occurs(TextOf(doc), task[t].fetchingText)

\* C5: when fetchLinkMetadata resolves with metadata and the placeholder text
\* is in the document, the text afterwards is the text read at that moment
\* with the first occurrence of the placeholder text replaced by the block
\* genCodeBlock serializes, and the two ends of the occurrence are mapped to
\* line and column by counting the newlines before them.
C5_ReplaceOnSuccess ==
  [][\A t \in Tasks :
       (/\ Resumes(t)
        /\ task'[t].lm # Undefined
        /\ Occurs(TextOf(doc), task[t].fetchingText))
       => LET text == TextOf(doc)
              s == FirstOccurrence(text, task[t].fetchingText)
              e == s + Len(task[t].fetchingText)
          IN  /\ TextOf(doc') =
                   Splice(text, s, e - s, genCodeBlock(task'[t].lm))
              /\ getEditorPositionFromIndex(text, s) = ByNewlines(text, s)
              /\ getEditorPositionFromIndex(text, e) = ByNewlines(text, e)
              /\ notices' = notices]_vars

\* a placeholder inserted after a line break was replaced by a block
C5_Witness ==
  \E t \in Tasks :
    /\ task[t].pc = "done"
    /\ task[t].how = "replaced"
    /\ task[t].hit = "own"
    /\ NewlinesBefore(task[t].before, task[t].at) > 0
    /\ Occurs(TextOf(doc), genCodeBlock(task[t].lm))

\* C6 as stated: a conversion that has ended has ended through its post-fetch
\* step, and no placeholder it inserted is left in the document
C6_Stated ==
  \A t \in Tasks :
    task[t].pc \notin InFlight \cup {"idle"}
    => task[t].pc = "done" /\ ~OwnPlaceholderPresent(t)

\* C7 as stated: no conversion ends with an error that nothing catches
C7_Stated == \A t \in Tasks : task[t].pc # "failed"

\* the assets fixImageUrl resolves
Assets == {"favicon", "image"}

\* the probes the conversion tk has issued for an asset, in order
Probes(tk, asset) == SelectSeq(tk.log, LAMBDA e : e.asset = asset)

\* the parse of the conversion tk has resolved the asset
Resolved(tk, asset) == tk.lm # Undefined /\ tk.lm[asset] # Pending

\* the parse of tk is resolving, or has resolved, a reference that begins //
ProtocolRelative(tk, asset) ==
  /\ tk.lm # Undefined
  /\ Truthy(AssetRef(tk.htmlDoc, asset))
  /\ StartsWith(AssetRef(tk.htmlDoc, asset), <<"/", "/">>)

\* ... a reference that begins / and not //, on a page whose host is known
RootRelative(tk, asset) ==
  /\ tk.lm # Undefined
  /\ Truthy(AssetRef(tk.htmlDoc, asset))
  /\ StartsWith(AssetRef(tk.htmlDoc, asset), <<"/">>)
  /\ ~StartsWith(AssetRef(tk.htmlDoc, asset), <<"/", "/">>)
  /\ tk.lm.host # <<>>

\* ... any other reference
OtherReference(tk, asset) ==
  /\ tk.lm # Undefined
  /\ Truthy(AssetRef(tk.htmlDoc, asset))
  /\ ~ProtocolRelative(tk, asset)
  /\ ~RootRelative(tk, asset)

HttpsColon == <<"h", "t", "t", "p", "s", ":">>
HttpColon == <<"h", "t", "t", "p", ":">>
Slashes == <<"/", "/">>

C9_RootRelative ==
  \A t \in Tasks, asset \in Assets :
    LET tk == task[t]
        ref == AssetRef(tk.htmlDoc, asset)
        ps == Probes(tk, asset)
    IN  (RootRelative(tk, asset) /\ Resolved(tk, asset))
        => /\ Len(ps) = 2
           /\ tk.lm[asset] =
                IF ps[1].r = "ok" THEN HttpsColon \o Slashes \o tk.lm.host \o ref
                ELSE IF ps[2].r = "ok" THEN HttpColon \o Slashes \o tk.lm.host \o ref
                ELSE ref

\* a root-relative reference reachable over http alone has resolved to its
\* http form
C9_Witness ==
  \E t \in Tasks, asset \in Assets :
    /\ RootRelative(task[t], asset)
    /\ Resolved(task[t], asset)
    /\ Probes(task[t], asset)[1].r = "fail"
    /\ Probes(task[t], asset)[2].r = "ok"
    /\ task[t].lm[asset] =
         HttpColon \o Slashes \o task[t].lm.host \o AssetRef(task[t].htmlDoc, asset)

TabNormalized(source) ==
  JoinLines(TabsToSpaces(SplitLines(source), -1).lines)

\* the mapping pairs has a non-empty value under key
HasValue(pairs, key) ==
  \E i \in 1..Len(pairs) :
    /\ pairs[i].key = key
    /\ pairs[i].value \notin {YamlNull, <<>>, <<"number", "0">>}

\* C11 (as amended): parse raises YamlParseError exactly when parseYaml
\* rejects the tab-normalized text; it raises NoRequiredParamsError exactly
\* when the text is well-formed YAML but is not a mapping with a non-empty url
\* and a non-empty title (an empty block, a scalar, or a mapping without
\* them); it returns a record exactly when both are present and non-empty.
C11_ParseErrors ==
  render.ran
  => LET yaml == parseYaml(TabNormalized(render.source))
         complete == /\ yaml.kind = "map"
                     /\ HasValue(yaml.pairs, KeyUrl)
                     /\ HasValue(yaml.pairs, KeyTitle)
     IN  /\ render.thrown = "YamlParseError" <=> yaml.kind = "throws"
         /\ render.thrown = "NoRequiredParamsError"
              <=> (yaml.kind # "throws" /\ ~complete)
         /\ render.data # Undefined <=> complete
         /\ complete => /\ render.data.url = YamlGet(yaml.pairs, KeyUrl)
                        /\ render.data.title = YamlGet(yaml.pairs, KeyTitle)

\* a source that is well-formed YAML and no mapping (a plain line) was
\* rendered: parse raised NoRequiredParamsError
C11_Witness ==
  /\ render.ran
  /\ parseYaml(TabNormalized(render.source)).kind = "scalar"
  /\ render.thrown = "NoRequiredParamsError"

\* C11 as stated: YamlParseError is raised exactly when the text is not a
\* well-formed mapping (the empty block apart, which raises
\* NoRequiredParamsError)
C11_Stated ==
  render.ran
  => LET yaml == parseYaml(TabNormalized(render.source))
     IN  render.thrown = "YamlParseError" <=> yaml.kind \notin {"map", "null"}

\* the indexes of the lines that begin with a tab
TabLines(lines) == {i \in 1..Len(lines) : lines[i] # <<>> /\ lines[i][1] = "\t"}

\* the number of tabs line begins with
TabCount(line) ==
  Cardinality({i \in 1..Len(line) : \A j \in 1..i : line[j] = "\t"})

\* C12: parse sets indent to the number of leading tabs of the first line
\* that begins with a tab, whatever the tab counts of later lines; without
\* such a line indent is -1; and the text handed to parseYaml has every
\* line's leading tabs replaced by as many spaces.
C12_Indent ==
  render.ran
  => LET lines == SplitLines(render.source)
         tabbed == TabsToSpaces(lines, -1)
         first == CHOOSE i \in TabLines(lines) : \A j \in TabLines(lines) : i <= j
         indent == IF TabLines(lines) = {} THEN -1 ELSE TabCount(lines[first])
     IN  /\ tabbed.indent = indent
         /\ render.data # Undefined => render.data.indent = indent
         /\ Len(tabbed.lines) = Len(lines)
         /\ \A i \in 1..Len(lines) :
              LET n == TabCount(lines[i])
              IN  /\ Len(tabbed.lines[i]) = Len(lines[i])
                  /\ \A j \in 1..Len(lines[i]) :
                       tabbed.lines[i][j] = IF j <= n THEN " " ELSE lines[i][j]

\* a record was parsed from a source whose first tab-indented line has one
\* tab and a later line two: its indent is 1
C12_Witness ==
  /\ render.ran
  /\ render.data # Undefined
  /\ render.data.indent = 1
  /\ \E i \in TabLines(SplitLines(render.source)) :
       TabCount(SplitLines(render.source)[i]) = 2

Present(v) == IF Truthy(v) THEN v ELSE Absent

\* a text before its newlines were removed, its backslashes and quotes escaped
\* and its ends trimmed, as it should read after the escapes are undone
Unescaped(raw) ==
  IF raw = Absent THEN Absent ELSE Present(Trim(StripNewlines(raw)))

\* the record data parsed from a block carries the values of the record lm that
\* was extracted from the markup htmlDoc
RoundTrips(lm, htmlDoc, data) ==
  /\ data # Undefined
  /\ data.url = lm.url
  /\ data.host = Present(lm.host)
  /\ data.favicon = Present(lm.favicon)
  /\ data.image = Present(lm.image)
  /\ data.title = Unescaped(getTitle(htmlDoc))
  /\ data.description = Unescaped(getDescription(htmlDoc))

\* C14 as stated: parsing the block genCodeBlock wrote for an extracted record
\* returns a record with the same url, host, favicon and image, with the title
\* and description as they were before escaping, and with every absent
\* optional field absent.
C14_Stated ==
  \A t \in Tasks :
    /\ task[t].pc = "done"
    /\ task[t].lm # Undefined
    /\ render.ran
    /\ render.source = BlockSource(genCodeBlock(task[t].lm))
    => RoundTrips(task[t].lm, task[t].htmlDoc, render.data)

\* C14, what does hold: the round trip succeeds for the records whose image
\* reads in YAML as the plain text it is.
C14_RoundTripPlain ==
  \A t \in Tasks :
    /\ task[t].pc = "done"
    /\ task[t].lm # Undefined
    /\ render.ran
    /\ render.source = BlockSource(genCodeBlock(task[t].lm))
    /\ task[t].lm.image \notin {RefNumber, RefColon}
    => RoundTrips(task[t].lm, task[t].htmlDoc, render.data)

\* the block written for a record whose image is the text g: was not read
\* back at all: parseYaml rejected it
C14_Witness ==
  \E t \in Tasks :
    /\ task[t].pc = "done"
    /\ task[t].lm # Undefined
    /\ task[t].lm.image = RefColon
    /\ render.ran
    /\ render.source = BlockSource(genCodeBlock(task[t].lm))
    /\ render.thrown = "YamlParseError"

\* the fields of a record in the order of their lines, each with its key and
\* whether its value is wrapped in double quotes
BlockFields ==
  << [name |-> "url", key |-> KeyUrl, quoted |-> FALSE],
     [name |-> "title", key |-> KeyTitle, quoted |-> TRUE],
     [name |-> "description", key |-> KeyDescription, quoted |-> TRUE],
     [name |-> "host", key |-> KeyHost, quoted |-> FALSE],
     [name |-> "favicon", key |-> KeyFavicon, quoted |-> FALSE],
     [name |-> "image", key |-> KeyImage, quoted |-> FALSE] >>

\* the key: value line of field f of the record lm
FieldLine(lm, f) ==
  f.key \o <<":", " ">>
    \o (IF f.quoted THEN <<"\"">> \o lm[f.name] \o <<"\"">> ELSE lm[f.name])

\* the lines of the block of lm: an empty line, the opening fence, a line for
\* url, for title and for each optional field that is there, the closing
\* fence, and an empty line
BlockLines(lm) ==
  LET there == SelectSeq(BlockFields,
                         LAMBDA f : f.name \in {"url", "title"} \/ Truthy(lm[f.name]))
  IN  << <<>>, Fence \o <<"c", "a", "r", "d", "l", "i", "n", "k">> >>
        \o [i \in 1..Len(there) |-> FieldLine(lm, there[i])]
        \o << Fence, <<>> >>

\* the values indent takes
Indents == {-1, 0, 1, 2}

\* C15: the block genCodeBlock writes for a record is, line by line, a blank
\* line, the opening fence tagged cardlink, one key: value line per present
\* field in the order url, title, description, host, favicon, image, with
\* title and description in double quotes and no line for an absent optional
\* field, the closing fence and a blank line; the block is the same whatever
\* the record's indent.
C15_Serialize ==
  \A t \in Tasks :
    task[t].pc = "done" /\ task[t].lm # Undefined
    => /\ SplitLines(genCodeBlock(task[t].lm)) = BlockLines(task[t].lm)
       /\ \A k \in Indents :
            genCodeBlock([task[t].lm EXCEPT !.indent = k]) = genCodeBlock(task[t].lm)

\* a record with a description and an image but no favicon was serialized into
\* the document
C15_Witness ==
  \E t \in Tasks :
    /\ task[t].pc = "done"
    /\ task[t].lm # Undefined
    /\ Truthy(task[t].lm.description)
    /\ Truthy(task[t].lm.host)
    /\ ~Truthy(task[t].lm.favicon)
    /\ Truthy(task[t].lm.image)
    /\ Occurs(TextOf(doc), genCodeBlock(task[t].lm))

\* markup whose only metadata tag is an og:title of "Example Title"
DocExample == [NoDoc EXCEPT !.ogTitle = ExampleTitle]

HostExample == <<"e", "x", "a", "m", "p", "l", "e", ".", "c", "o", "m">>

\* the record of the scenario
RecordExample ==
  [url |-> UrlExample, title |-> ExampleTitle, description |-> Absent,
   host |-> HostExample, favicon |-> Absent, image |-> Absent, indent |-> 0]

\* task t converted https://example.com from the markup of the scenario
ScenarioDone(t) ==
  /\ task[t].pc = "done"
  /\ task[t].url = UrlExample
  /\ task[t].fetch = "ok"
  /\ task[t].htmlDoc = DocExample

LineUrlExample == <<"u", "r", "l", ":", " ">> \o UrlExample
LineTitleExample ==
  <<"t", "i", "t", "l", "e", ":", " ", "\"">> \o ExampleTitle \o <<"\"">>
LineHostExample == <<"h", "o", "s", "t", ":", " ">> \o HostExample

\* C16 (as amended): for https://example.com and markup whose only metadata
\* tag is an og:title of "Example Title", extraction yields the record with
\* that url and title, host example.com, and description, favicon and image
\* absent; the block written for it holds, between its fences, exactly the
\* url, title and host lines.
C16_Scenario ==
  \A t \in Tasks :
    ScenarioDone(t)
    => /\ task[t].lm = RecordExample
       /\ HasBlock(TextOf(doc))
       /\ SplitLines(BlockSource(TextOf(doc)))
            = <<LineUrlExample, LineTitleExample, LineHostExample>>

\* the scenario has run: the document holds the block of the record
C16_Witness ==
  \E t \in Tasks :
    /\ ScenarioDone(t)
    /\ task[t].lm = RecordExample
    /\ Occurs(TextOf(doc), genCodeBlock(RecordExample))

\* C16 as stated: the block of the scenario's record holds exactly the url
\* and title lines between its fences.
C16_Stated ==
  \A t \in Tasks :
    ScenarioDone(t)
    => /\ task[t].lm = RecordExample
       /\ HasBlock(TextOf(doc))
       /\ SplitLines(BlockSource(TextOf(doc))) = <<LineUrlExample, LineTitleExample>>

\* the title text the markup gives: the og:title content when it is there and
\* not empty, otherwise the text of the title element
TitleText(htmlDoc) ==
  IF htmlDoc.ogTitle # Absent /\ htmlDoc.ogTitle # <<>> THEN htmlDoc.ogTitle
  ELSE htmlDoc.title

\* a title was derived: the title text is not empty after normalization
TitleDerived(htmlDoc) ==
  /\ TitleText(htmlDoc) # Absent
  /\ Normalize(TitleText(htmlDoc)) # <<>>

\* the parser ran on the markup of task t and has ended
Parsed(t) == task[t].fetch = "ok" /\ task[t].pc \notin InFlight

\* C17 as stated: the title is the normalized og:title content when that is
\* present and non-empty, otherwise the normalized title element text; the
\* parser never throws, and it constructs a record if and only if a title was
\* derived, whatever the page URL, the other tags and the probe results.
C17_Stated ==
  \A t \in Tasks :
    Parsed(t)
    => /\ task[t].how # "threw"
       /\ task[t].lm # Undefined <=> TitleDerived(task[t].htmlDoc)
       /\ task[t].lm # Undefined
          => task[t].lm.title = Normalize(TitleText(task[t].htmlDoc))

\* C17, what does hold: the statement is true of the page URLs that new URL
\* parses.
C17_TitleGate ==
  \A t \in Tasks :
    Parsed(t) /\ ParseUrl(task[t].url).ok
    => /\ task[t].how # "threw"
       /\ task[t].lm # Undefined <=> TitleDerived(task[t].htmlDoc)
       /\ task[t].lm # Undefined
          => task[t].lm.title = Normalize(TitleText(task[t].htmlDoc))

\* a title was derived for the page www.a.bc, and the parser threw: there is
\* no record
C17_Witness ==
  \E t \in Tasks :
    /\ Parsed(t)
    /\ task[t].url = UrlWww
    /\ TitleDerived(task[t].htmlDoc)
    /\ task[t].how = "threw"
    /\ task[t].lm = Undefined

\* the text s has no line break
NoNewline(s) == \A i \in 1..Len(s) : s[i] \notin {"\r", "\n"}

\* the number of backslashes of s that end at index i
RECURSIVE BackslashesBefore(_, _)
BackslashesBefore(s, i) ==
  IF i >= 1 /\ s[i] = "\\" THEN 1 + BackslashesBefore(s, i - 1) ELSE 0

\* every double quote of s is escaped: an odd number of backslashes stands
\* right before it
QuotesEscaped(s) ==
  \A i \in 1..Len(s) : s[i] = "\"" => BackslashesBefore(s, i - 1) % 2 = 1

\* the text s has no whitespace at its ends
Trimmed(s) == s = <<>> \/ (~IsSpace(s[1]) /\ ~IsSpace(s[Len(s)]))

\* the normalized text v is raw without its line breaks and surrounding
\* whitespace, each backslash written as two and each quote as backslash-quote:
\* reading the escapes back, once, gives that text
NormalizedFrom(v, raw) ==
  /\ v = Trim(EscapeQuotes(EscapeBackslashes(StripNewlines(raw))))
  /\ NoNewline(v)
  /\ QuotesEscaped(v)
  /\ Trimmed(v)
  /\ Unquote(v \o <<"\"">>, 1) = [ok |-> TRUE, v |-> Trim(StripNewlines(raw))]

\* C18: the title and the description of every extracted record are the
\* markup's texts with every line break removed, then each backslash doubled,
\* then each double quote written as backslash-quote, then the ends trimmed;
\* so they hold no line break and no unescaped double quote, and undoing the
\* escapes once gives back the text: no backslash was escaped twice.
C18_Normalized ==
  \A t \in Tasks :
    task[t].lm # Undefined
    => /\ NormalizedFrom(task[t].lm.title, getTitle(task[t].htmlDoc))
       /\ IF getDescription(task[t].htmlDoc) = Absent
          THEN task[t].lm.description = Absent
          ELSE NormalizedFrom(task[t].lm.description,
                              getDescription(task[t].htmlDoc))

\* a record whose title and description come from a text with line breaks, a
\* backslash, a quote and surrounding whitespace
C18_Witness ==
  \E t \in Tasks :
    /\ task[t].pc = "done"
    /\ task[t].lm # Undefined
    /\ getTitle(task[t].htmlDoc) = RawText
    /\ getDescription(task[t].htmlDoc) = RawText
    /\ task[t].lm.title = <<"\\", "\\", "\\", "\"", "a">>
    /\ task[t].lm.description = task[t].lm.title

\* the step starts no conversion: every conversion stands where it stood
StartsNothing == \A t \in Tasks : task'[t].pc = task[t].pc

\* the step inserts text at the selection as a plain paste does, and nothing
\* else
PastesPlainly(text) ==
  /\ doc' = replaceSelection(doc, sel, text, 0).doc
  /\ sel' = replaceSelection(doc, sel, text, 0).sel
  /\ notices' = notices

\* the clipboard texts that are image URLs
ImageUrls == {c \in ClipTexts : isUrl(c) /\ isImage(c)}

\* every conversion that was started was started on a text that is a URL and
\* is no image URL
StartedOnUrls ==
  \A t \in Tasks : task[t].pc # "idle" => isUrl(task[t].url) /\ ~isImage(task[t].url)

\* C19: the paste hook and the manual command start a conversion only on a
\* clipboard text that isUrl accepts and isImage does not.  For an image URL
\* no placeholder is inserted and no fetch is issued: the manual command
\* inserts the text as it is at the selection, and the paste hook returns
\* without taking the event, which the editor then pastes as it is.
C19_PasteHandling ==
  /\ []StartedOnUrls
  /\ [][\A c \in ImageUrls :
          /\ manualPasteAndEnhanceURLOf(c) => StartsNothing /\ PastesPlainly(c)
          /\ \A data \in {"none", "files", "text"} :
               onPasteOf(data, c)
               => /\ StartsNothing
                  /\ ~(\E f \in BOOLEAN \X BOOLEAN : ~onPasteReturns(f[1], f[2], data, c))
                  /\ PastesPlainly(c) \/ UNCHANGED vars]_vars

\* an image URL was pasted: it stands in the document as plain text and no
\* conversion was started
C19_Witness ==
  /\ UrlImage \in ImageUrls
  /\ Occurs(TextOf(doc), UrlImage)
  /\ \A i \in 1..Len(doc) : doc[i].o = 0
  /\ \A t \in Tasks : task[t].pc = "idle"
  /\ edits = 1

\* the inline error element that carries the message
ErrorElement(message) == [kind |-> "error", text |-> ErrorPrefix \o message]

\* C20: run always returns.  When parse throws NoRequiredParamsError or
\* YamlParseError the element gets exactly one child, an error element with
\* that error's message; when a TypeError is thrown it gets exactly one error
\* element saying that internal links must be surrounded by quotes; after any
\* other failure it gets no child; and it gets a card, its only child, exactly
\* when parse and genLinkEl both succeeded.
C20_RenderBoundary ==
  render.ran
  => LET parsed == parseLinkMetadataFromYaml(render.source)
     IN  /\ render.thrown \in {"none", "NoRequiredParamsError", "YamlParseError",
                               "TypeError", "Error"}
         /\ parsed.thrown = "NoRequiredParamsError"
            => /\ render.thrown = "NoRequiredParamsError"
               /\ render.el = <<ErrorElement(NoRequiredParamsErrorMessage)>>
         /\ parsed.thrown = "YamlParseError"
            => /\ render.thrown = "YamlParseError"
               /\ render.el = <<ErrorElement(YamlParseErrorMessage)>>
         /\ render.thrown = "TypeError"
            => render.el = <<ErrorElement(InternalLinksMessage)>>
         /\ render.thrown = "Error" => render.el = <<>>
         /\ render.thrown = "none"
            <=> /\ Len(render.el) = 1
                /\ render.el[1].kind = "card"
         /\ render.thrown = "none" => parsed.thrown = "none"

\* each outcome of run has happened on some block: this one is the TypeError,
\* thrown for a favicon that YAML reads as a number
C20_Witness ==
  /\ render.ran
  /\ render.thrown = "TypeError"
  /\ render.data # Undefined
  /\ render.el = <<ErrorElement(InternalLinksMessage)>>

\* the indices of the tokens that are a URL or a Markdown link
Wanted(tokens) ==
  {k \in 1..Len(tokens) : isUrl(tokens[k]) \/ isLinkedUrl(tokens[k])}

\* the index of the j-th of them
NthWanted(tokens, j) ==
  CHOOSE k \in Wanted(tokens) : Cardinality({m \in Wanted(tokens) : m <= k}) = j

\* url is the address of the token: the token itself when it is a URL, else
\* what stands between the parentheses of the link [text](url)
AddressOf(token, url) ==
  IF isUrl(token) THEN url = token
  ELSE \E n \in 1..Len(token) :
         /\ token = <<"[">> \o SubSeq(token, 2, n) \o <<"]", "(">> \o url \o <<")">>
         /\ \A k \in 2..n : token[k] \notin {"[", "]"}
         /\ isUrl(url)

\* the text holds the placeholder of the conversion tk, inserted as conversion
\* t, where tk inserted it
HoldsPlaceholder(d, t, tk) ==
  /\ OccursAt(TextOf(d), tk.fetchingText, tk.at)
  /\ \A i \in (tk.at + 1)..(tk.at + Len(tk.fetchingText)) : d[i].o = t
  /\ \E id \in PasteIds : tk.fetchingText = fetchingText(id, tk.url)

\* the offset just after the placeholder of the conversion tk
PlaceholderEnd(tk) == tk.at + Len(tk.fetchingText)

\* the command, run on the selection s whose trimmed text has these tokens,
\* of which n are URLs or links, the conversions before it numbering first - 1:
\* it starts the conversions first .. first + n - 1, one for each such token in
\* token order; all of them are suspended at their request with their
\* placeholders in the document and no conversion has gone on meanwhile; the
\* first captured the whole selection and put its placeholder in its place;
\* each later one captured nothing and put its placeholder right after the
\* one before; around the placeholders the document is as it was
EnhancedAs(s, tokens, n, first) ==
  /\ {t \in Tasks : task[t].pc = "idle" /\ task'[t].pc # "idle"}
       = first..(first + n - 1)
  /\ \A t \in Tasks \ (first..(first + n - 1)) : task'[t].pc = task[t].pc
  /\ \A j \in 1..n :
       /\ task'[first + j - 1].pc = "fetch"
       /\ AddressOf(tokens[NthWanted(tokens, j)], task'[first + j - 1].url)
       /\ HoldsPlaceholder(doc', first + j - 1, task'[first + j - 1])
  /\ n >= 1
     => /\ task'[first].selectedText = getSelection(doc, s)
        /\ task'[first].at = s.from
        /\ Slice(doc', 0, s.from) = Slice(doc, 0, s.from)
        /\ Slice(doc', PlaceholderEnd(task'[first + n - 1]), Len(doc'))
             = Slice(doc, s.to, Len(doc))
        /\ sel'.from = PlaceholderEnd(task'[first + n - 1])
        /\ sel'.to = sel'.from
  /\ \A j \in 2..n :
       /\ task'[first + j - 1].selectedText = <<>>
       /\ task'[first + j - 1].at = PlaceholderEnd(task'[first + j - 2])

EnhancedTokens(s, tokens) ==
  Len(tokens) > 1
  => EnhancedAs(s, tokens, Cardinality(Wanted(tokens)),
                Cardinality({t \in Tasks : task[t].pc # "idle"}) + 1)

\* if the step is the command run on the selection s, it has done the above
EnhanceStep(s) ==
  EnhanceSelection(s)
  => EnhancedTokens(s, SplitTokens(Trim(getSelection(doc, s))))

\* C21: when enhance-selected runs on a selection whose trimmed text splits on
\* newline or space into several tokens, one conversion is started for each
\* token that is a URL or a Markdown link, in token order and without awaiting
\* the earlier ones, so that all placeholders are in the document before any
\* conversion applies its post-fetch replacement; the first invocation captures
\* the whole selection as its revert text and replaces the whole selection with
\* its placeholder, and every later invocation captures an empty selection and
\* inserts its placeholder at the cursor directly after the previous one.
C21_EnhanceSelected == [][EnhanceStep(SelectionOf(doc, sel))]_vars

\* the command has run on a selection of several tokens: two conversions are
\* suspended at their requests, the first holding the selection, a URL, a
\* space and a link, as its revert text, the second holding none and
\* converting the address of the link, its placeholder right after the first
C21_Witness ==
  \E t \in Tasks \ {MaxOps} :
    /\ task[t].pc = "fetch"
    /\ task[t + 1].pc = "fetch"
    /\ task[t].selectedText = UrlPlain \o <<" ">> \o LinkOther
    /\ task[t].url = UrlPlain
    /\ task[t + 1].selectedText = <<>>
    /\ task[t + 1].url = UrlOther
    /\ task[t + 1].at = PlaceholderEnd(task[t])
    /\ HoldsPlaceholder(doc, t, task[t])
    /\ HoldsPlaceholder(doc, t + 1, task[t + 1])
    /\ Len(doc) = Len(task[t].fetchingText) + Len(task[t + 1].fetchingText)

====
